---- MODULE Spec2Model ----
(***************************************************************************)
(* The expression compiler of the Blender add-ons: tokenize, the two       *)
(* to_rpn variants (calculate_surface_node.py and the parametric_* node    *)
(* files), the numeric evaluator eval_rpn and the graph compiler           *)
(* build_expr.                                                             *)
(*                                                                         *)
(* A Python str is a sequence of one-character strings.  A token is the    *)
(* tuple the source builds: <<"NUMBER", txt>>, <<"ID", txt>> with txt a    *)
(* sequence of characters, <<"OP", c>> with c one character,               *)
(* <<"UNARY", "neg">>, <<"FUNC", name>> on the operator stack and          *)
(* <<"FUNC", name, nargs>> in the output.  The top of a Python list used   *)
(* as a stack is the last element of the sequence.                         *)
(***************************************************************************)
EXTENDS Integers, Sequences, FiniteSets, TLC

None == <<>>

Last(s) == s[Len(s)]
Front(s) == SubSeq(s, 1, Len(s) - 1)

----------------------------------------------------------------------------
(* Characters                                                              *)
(*                                                                         *)
(* A character is a one-character string where a TLA+ string can hold it   *)
(* (printable ASCII but the backquote, tab, newline, form feed, carriage   *)
(* return) and the name of its code point, "U+" and at least four          *)
(* hexadecimal digits, otherwise: "U+000B" is the vertical tab, "U+0060"   *)
(* the backquote and "U+00E9" is e with acute.                             *)
(* The classes below are those of str: \d, \w, str.strip() and str.lower() *)
(* follow the Unicode database of the interpreter.  The tables list code   *)
(* points as five hexadecimal digits; a table of ranges is a sequence of   *)
(* rows, and a row holds ranges first-last separated by a space.           *)

\* the hexadecimal digits of n
RECURSIVE Hex(_)
Hex(n) ==
    (IF n < 16 THEN "" ELSE Hex(n \div 16))
    \o SubSeq("0123456789ABCDEF", (n % 16) + 1, (n % 16) + 1)

\* chr(cp)
chr(cp) ==
    IF cp \in 32..95
    THEN SubSeq(" !\"#$%&'()*+,-./0123456789:;<=>?@ABCDEFGHIJKLMNOPQRSTUVWXYZ[\\]^_",
                cp - 31, cp - 31)
    ELSE IF cp \in 97..126
    THEN SubSeq("abcdefghijklmnopqrstuvwxyz{|}~", cp - 96, cp - 96)
    ELSE IF cp = 9 THEN "\t"
    ELSE IF cp = 10 THEN "\n"
    ELSE IF cp = 12 THEN "\f"
    ELSE IF cp = 13 THEN "\r"
    ELSE "U+" \o (IF cp < 16 THEN "000" ELSE IF cp < 256 THEN "00"
                  ELSE IF cp < 4096 THEN "0" ELSE "") \o Hex(cp)

\* the code point written as five hexadecimal digits at i in row
Code(row, i) ==
    LET digit(k) ==
          CHOOSE v \in 0..15 :
             SubSeq("0123456789ABCDEF", v + 1, v + 1) = SubSeq(row, k, k)
    IN  65536 * digit(i) + 4096 * digit(i + 1) + 256 * digit(i + 2)
        + 16 * digit(i + 3) + digit(i + 4)

\* the characters of a table of ranges
CharsOf(table) ==
    {chr(cp) :
        cp \in UNION {UNION {Code(row, 12 * k + 1)..Code(row, 12 * k + 7) :
                                k \in 0..(Len(row) \div 12)} :
                         row \in {table[j] : j \in DOMAIN table}}}

\* the value float() gives a decimal digit.  zeros holds the code point
\* of the digit zero of every block of decimal digits (\d), six to a row;
\* the digits one to nine follow it.
DigitValue ==
    LET zeros ==
          <<"00030 00660 006F0 007C0 00966 009E6",
            "00A66 00AE6 00B66 00BE6 00C66 00CE6",
            "00D66 00DE6 00E50 00ED0 00F20 01040",
            "01090 017E0 01810 01946 019D0 01A80",
            "01A90 01B50 01BB0 01C40 01C50 0A620",
            "0A8D0 0A900 0A9D0 0A9F0 0AA50 0ABF0",
            "0FF10 104A0 10D30 11066 110F0 11136",
            "111D0 112F0 11450 114D0 11650 116C0",
            "11730 118E0 11950 11C50 11D50 11DA0",
            "16A60 16AC0 16B50 1D7CE 1D7D8 1D7E2",
            "1D7EC 1D7F6 1E140 1E2F0 1E950 1FBF0">>
        Map(pairs) ==
            [c \in {p[1] : p \in pairs} |->
                (CHOOSE p \in pairs : p[1] = c)[2]]
    IN  Map({<<chr(Code(zeros[j], 6 * k + 1) + v), v>> :
                j \in DOMAIN zeros, k \in 0..5, v \in 0..9})

\* \d
Digits == DOMAIN DigitValue

\* [A-Za-z_]
IdStart == CharsOf(<<"00041-0005A 0005F-0005F 00061-0007A">>)

\* \w: the alphanumeric code points and the underscore
WordChars ==
    CharsOf(
      <<"00030-00039 00041-0005A 0005F-0005F 00061-0007A 000AA-000AA",
        "000B2-000B3 000B5-000B5 000B9-000BA 000BC-000BE 000C0-000D6",
        "000D8-000F6 000F8-002C1 002C6-002D1 002E0-002E4 002EC-002EC",
        "002EE-002EE 00370-00374 00376-00377 0037A-0037D 0037F-0037F",
        "00386-00386 00388-0038A 0038C-0038C 0038E-003A1 003A3-003F5",
        "003F7-00481 0048A-0052F 00531-00556 00559-00559 00560-00588",
        "005D0-005EA 005EF-005F2 00620-0064A 00660-00669 0066E-0066F",
        "00671-006D3 006D5-006D5 006E5-006E6 006EE-006FC 006FF-006FF",
        "00710-00710 00712-0072F 0074D-007A5 007B1-007B1 007C0-007EA",
        "007F4-007F5 007FA-007FA 00800-00815 0081A-0081A 00824-00824",
        "00828-00828 00840-00858 00860-0086A 00870-00887 00889-0088E",
        "008A0-008C9 00904-00939 0093D-0093D 00950-00950 00958-00961",
        "00966-0096F 00971-00980 00985-0098C 0098F-00990 00993-009A8",
        "009AA-009B0 009B2-009B2 009B6-009B9 009BD-009BD 009CE-009CE",
        "009DC-009DD 009DF-009E1 009E6-009F1 009F4-009F9 009FC-009FC",
        "00A05-00A0A 00A0F-00A10 00A13-00A28 00A2A-00A30 00A32-00A33",
        "00A35-00A36 00A38-00A39 00A59-00A5C 00A5E-00A5E 00A66-00A6F",
        "00A72-00A74 00A85-00A8D 00A8F-00A91 00A93-00AA8 00AAA-00AB0",
        "00AB2-00AB3 00AB5-00AB9 00ABD-00ABD 00AD0-00AD0 00AE0-00AE1",
        "00AE6-00AEF 00AF9-00AF9 00B05-00B0C 00B0F-00B10 00B13-00B28",
        "00B2A-00B30 00B32-00B33 00B35-00B39 00B3D-00B3D 00B5C-00B5D",
        "00B5F-00B61 00B66-00B6F 00B71-00B77 00B83-00B83 00B85-00B8A",
        "00B8E-00B90 00B92-00B95 00B99-00B9A 00B9C-00B9C 00B9E-00B9F",
        "00BA3-00BA4 00BA8-00BAA 00BAE-00BB9 00BD0-00BD0 00BE6-00BF2",
        "00C05-00C0C 00C0E-00C10 00C12-00C28 00C2A-00C39 00C3D-00C3D",
        "00C58-00C5A 00C5D-00C5D 00C60-00C61 00C66-00C6F 00C78-00C7E",
        "00C80-00C80 00C85-00C8C 00C8E-00C90 00C92-00CA8 00CAA-00CB3",
        "00CB5-00CB9 00CBD-00CBD 00CDD-00CDE 00CE0-00CE1 00CE6-00CEF",
        "00CF1-00CF2 00D04-00D0C 00D0E-00D10 00D12-00D3A 00D3D-00D3D",
        "00D4E-00D4E 00D54-00D56 00D58-00D61 00D66-00D78 00D7A-00D7F",
        "00D85-00D96 00D9A-00DB1 00DB3-00DBB 00DBD-00DBD 00DC0-00DC6",
        "00DE6-00DEF 00E01-00E30 00E32-00E33 00E40-00E46 00E50-00E59",
        "00E81-00E82 00E84-00E84 00E86-00E8A 00E8C-00EA3 00EA5-00EA5",
        "00EA7-00EB0 00EB2-00EB3 00EBD-00EBD 00EC0-00EC4 00EC6-00EC6",
        "00ED0-00ED9 00EDC-00EDF 00F00-00F00 00F20-00F33 00F40-00F47",
        "00F49-00F6C 00F88-00F8C 01000-0102A 0103F-01049 01050-01055",
        "0105A-0105D 01061-01061 01065-01066 0106E-01070 01075-01081",
        "0108E-0108E 01090-01099 010A0-010C5 010C7-010C7 010CD-010CD",
        "010D0-010FA 010FC-01248 0124A-0124D 01250-01256 01258-01258",
        "0125A-0125D 01260-01288 0128A-0128D 01290-012B0 012B2-012B5",
        "012B8-012BE 012C0-012C0 012C2-012C5 012C8-012D6 012D8-01310",
        "01312-01315 01318-0135A 01369-0137C 01380-0138F 013A0-013F5",
        "013F8-013FD 01401-0166C 0166F-0167F 01681-0169A 016A0-016EA",
        "016EE-016F8 01700-01711 0171F-01731 01740-01751 01760-0176C",
        "0176E-01770 01780-017B3 017D7-017D7 017DC-017DC 017E0-017E9",
        "017F0-017F9 01810-01819 01820-01878 01880-01884 01887-018A8",
        "018AA-018AA 018B0-018F5 01900-0191E 01946-0196D 01970-01974",
        "01980-019AB 019B0-019C9 019D0-019DA 01A00-01A16 01A20-01A54",
        "01A80-01A89 01A90-01A99 01AA7-01AA7 01B05-01B33 01B45-01B4C",
        "01B50-01B59 01B83-01BA0 01BAE-01BE5 01C00-01C23 01C40-01C49",
        "01C4D-01C7D 01C80-01C88 01C90-01CBA 01CBD-01CBF 01CE9-01CEC",
        "01CEE-01CF3 01CF5-01CF6 01CFA-01CFA 01D00-01DBF 01E00-01F15",
        "01F18-01F1D 01F20-01F45 01F48-01F4D 01F50-01F57 01F59-01F59",
        "01F5B-01F5B 01F5D-01F5D 01F5F-01F7D 01F80-01FB4 01FB6-01FBC",
        "01FBE-01FBE 01FC2-01FC4 01FC6-01FCC 01FD0-01FD3 01FD6-01FDB",
        "01FE0-01FEC 01FF2-01FF4 01FF6-01FFC 02070-02071 02074-02079",
        "0207F-02089 02090-0209C 02102-02102 02107-02107 0210A-02113",
        "02115-02115 02119-0211D 02124-02124 02126-02126 02128-02128",
        "0212A-0212D 0212F-02139 0213C-0213F 02145-02149 0214E-0214E",
        "02150-02189 02460-0249B 024EA-024FF 02776-02793 02C00-02CE4",
        "02CEB-02CEE 02CF2-02CF3 02CFD-02CFD 02D00-02D25 02D27-02D27",
        "02D2D-02D2D 02D30-02D67 02D6F-02D6F 02D80-02D96 02DA0-02DA6",
        "02DA8-02DAE 02DB0-02DB6 02DB8-02DBE 02DC0-02DC6 02DC8-02DCE",
        "02DD0-02DD6 02DD8-02DDE 02E2F-02E2F 03005-03007 03021-03029",
        "03031-03035 03038-0303C 03041-03096 0309D-0309F 030A1-030FA",
        "030FC-030FF 03105-0312F 03131-0318E 03192-03195 031A0-031BF",
        "031F0-031FF 03220-03229 03248-0324F 03251-0325F 03280-03289",
        "032B1-032BF 03400-04DBF 04E00-0A48C 0A4D0-0A4FD 0A500-0A60C",
        "0A610-0A62B 0A640-0A66E 0A67F-0A69D 0A6A0-0A6EF 0A717-0A71F",
        "0A722-0A788 0A78B-0A7CA 0A7D0-0A7D1 0A7D3-0A7D3 0A7D5-0A7D9",
        "0A7F2-0A801 0A803-0A805 0A807-0A80A 0A80C-0A822 0A830-0A835",
        "0A840-0A873 0A882-0A8B3 0A8D0-0A8D9 0A8F2-0A8F7 0A8FB-0A8FB",
        "0A8FD-0A8FE 0A900-0A925 0A930-0A946 0A960-0A97C 0A984-0A9B2",
        "0A9CF-0A9D9 0A9E0-0A9E4 0A9E6-0A9FE 0AA00-0AA28 0AA40-0AA42",
        "0AA44-0AA4B 0AA50-0AA59 0AA60-0AA76 0AA7A-0AA7A 0AA7E-0AAAF",
        "0AAB1-0AAB1 0AAB5-0AAB6 0AAB9-0AABD 0AAC0-0AAC0 0AAC2-0AAC2",
        "0AADB-0AADD 0AAE0-0AAEA 0AAF2-0AAF4 0AB01-0AB06 0AB09-0AB0E",
        "0AB11-0AB16 0AB20-0AB26 0AB28-0AB2E 0AB30-0AB5A 0AB5C-0AB69",
        "0AB70-0ABE2 0ABF0-0ABF9 0AC00-0D7A3 0D7B0-0D7C6 0D7CB-0D7FB",
        "0F900-0FA6D 0FA70-0FAD9 0FB00-0FB06 0FB13-0FB17 0FB1D-0FB1D",
        "0FB1F-0FB28 0FB2A-0FB36 0FB38-0FB3C 0FB3E-0FB3E 0FB40-0FB41",
        "0FB43-0FB44 0FB46-0FBB1 0FBD3-0FD3D 0FD50-0FD8F 0FD92-0FDC7",
        "0FDF0-0FDFB 0FE70-0FE74 0FE76-0FEFC 0FF10-0FF19 0FF21-0FF3A",
        "0FF41-0FF5A 0FF66-0FFBE 0FFC2-0FFC7 0FFCA-0FFCF 0FFD2-0FFD7",
        "0FFDA-0FFDC 10000-1000B 1000D-10026 10028-1003A 1003C-1003D",
        "1003F-1004D 10050-1005D 10080-100FA 10107-10133 10140-10178",
        "1018A-1018B 10280-1029C 102A0-102D0 102E1-102FB 10300-10323",
        "1032D-1034A 10350-10375 10380-1039D 103A0-103C3 103C8-103CF",
        "103D1-103D5 10400-1049D 104A0-104A9 104B0-104D3 104D8-104FB",
        "10500-10527 10530-10563 10570-1057A 1057C-1058A 1058C-10592",
        "10594-10595 10597-105A1 105A3-105B1 105B3-105B9 105BB-105BC",
        "10600-10736 10740-10755 10760-10767 10780-10785 10787-107B0",
        "107B2-107BA 10800-10805 10808-10808 1080A-10835 10837-10838",
        "1083C-1083C 1083F-10855 10858-10876 10879-1089E 108A7-108AF",
        "108E0-108F2 108F4-108F5 108FB-1091B 10920-10939 10980-109B7",
        "109BC-109CF 109D2-10A00 10A10-10A13 10A15-10A17 10A19-10A35",
        "10A40-10A48 10A60-10A7E 10A80-10A9F 10AC0-10AC7 10AC9-10AE4",
        "10AEB-10AEF 10B00-10B35 10B40-10B55 10B58-10B72 10B78-10B91",
        "10BA9-10BAF 10C00-10C48 10C80-10CB2 10CC0-10CF2 10CFA-10D23",
        "10D30-10D39 10E60-10E7E 10E80-10EA9 10EB0-10EB1 10F00-10F27",
        "10F30-10F45 10F51-10F54 10F70-10F81 10FB0-10FCB 10FE0-10FF6",
        "11003-11037 11052-1106F 11071-11072 11075-11075 11083-110AF",
        "110D0-110E8 110F0-110F9 11103-11126 11136-1113F 11144-11144",
        "11147-11147 11150-11172 11176-11176 11183-111B2 111C1-111C4",
        "111D0-111DA 111DC-111DC 111E1-111F4 11200-11211 11213-1122B",
        "11280-11286 11288-11288 1128A-1128D 1128F-1129D 1129F-112A8",
        "112B0-112DE 112F0-112F9 11305-1130C 1130F-11310 11313-11328",
        "1132A-11330 11332-11333 11335-11339 1133D-1133D 11350-11350",
        "1135D-11361 11400-11434 11447-1144A 11450-11459 1145F-11461",
        "11480-114AF 114C4-114C5 114C7-114C7 114D0-114D9 11580-115AE",
        "115D8-115DB 11600-1162F 11644-11644 11650-11659 11680-116AA",
        "116B8-116B8 116C0-116C9 11700-1171A 11730-1173B 11740-11746",
        "11800-1182B 118A0-118F2 118FF-11906 11909-11909 1190C-11913",
        "11915-11916 11918-1192F 1193F-1193F 11941-11941 11950-11959",
        "119A0-119A7 119AA-119D0 119E1-119E1 119E3-119E3 11A00-11A00",
        "11A0B-11A32 11A3A-11A3A 11A50-11A50 11A5C-11A89 11A9D-11A9D",
        "11AB0-11AF8 11C00-11C08 11C0A-11C2E 11C40-11C40 11C50-11C6C",
        "11C72-11C8F 11D00-11D06 11D08-11D09 11D0B-11D30 11D46-11D46",
        "11D50-11D59 11D60-11D65 11D67-11D68 11D6A-11D89 11D98-11D98",
        "11DA0-11DA9 11EE0-11EF2 11FB0-11FB0 11FC0-11FD4 12000-12399",
        "12400-1246E 12480-12543 12F90-12FF0 13000-1342E 14400-14646",
        "16800-16A38 16A40-16A5E 16A60-16A69 16A70-16ABE 16AC0-16AC9",
        "16AD0-16AED 16B00-16B2F 16B40-16B43 16B50-16B59 16B5B-16B61",
        "16B63-16B77 16B7D-16B8F 16E40-16E96 16F00-16F4A 16F50-16F50",
        "16F93-16F9F 16FE0-16FE1 16FE3-16FE3 17000-187F7 18800-18CD5",
        "18D00-18D08 1AFF0-1AFF3 1AFF5-1AFFB 1AFFD-1AFFE 1B000-1B122",
        "1B150-1B152 1B164-1B167 1B170-1B2FB 1BC00-1BC6A 1BC70-1BC7C",
        "1BC80-1BC88 1BC90-1BC99 1D2E0-1D2F3 1D360-1D378 1D400-1D454",
        "1D456-1D49C 1D49E-1D49F 1D4A2-1D4A2 1D4A5-1D4A6 1D4A9-1D4AC",
        "1D4AE-1D4B9 1D4BB-1D4BB 1D4BD-1D4C3 1D4C5-1D505 1D507-1D50A",
        "1D50D-1D514 1D516-1D51C 1D51E-1D539 1D53B-1D53E 1D540-1D544",
        "1D546-1D546 1D54A-1D550 1D552-1D6A5 1D6A8-1D6C0 1D6C2-1D6DA",
        "1D6DC-1D6FA 1D6FC-1D714 1D716-1D734 1D736-1D74E 1D750-1D76E",
        "1D770-1D788 1D78A-1D7A8 1D7AA-1D7C2 1D7C4-1D7CB 1D7CE-1D7FF",
        "1DF00-1DF1E 1E100-1E12C 1E137-1E13D 1E140-1E149 1E14E-1E14E",
        "1E290-1E2AD 1E2C0-1E2EB 1E2F0-1E2F9 1E7E0-1E7E6 1E7E8-1E7EB",
        "1E7ED-1E7EE 1E7F0-1E7FE 1E800-1E8C4 1E8C7-1E8CF 1E900-1E943",
        "1E94B-1E94B 1E950-1E959 1EC71-1ECAB 1ECAD-1ECAF 1ECB1-1ECB4",
        "1ED01-1ED2D 1ED2F-1ED3D 1EE00-1EE03 1EE05-1EE1F 1EE21-1EE22",
        "1EE24-1EE24 1EE27-1EE27 1EE29-1EE32 1EE34-1EE37 1EE39-1EE39",
        "1EE3B-1EE3B 1EE42-1EE42 1EE47-1EE47 1EE49-1EE49 1EE4B-1EE4B",
        "1EE4D-1EE4F 1EE51-1EE52 1EE54-1EE54 1EE57-1EE57 1EE59-1EE59",
        "1EE5B-1EE5B 1EE5D-1EE5D 1EE5F-1EE5F 1EE61-1EE62 1EE64-1EE64",
        "1EE67-1EE6A 1EE6C-1EE72 1EE74-1EE77 1EE79-1EE7C 1EE7E-1EE7E",
        "1EE80-1EE89 1EE8B-1EE9B 1EEA1-1EEA3 1EEA5-1EEA9 1EEAB-1EEBB",
        "1F100-1F10C 1FBF0-1FBF9 20000-2A6DF 2A700-2B738 2B740-2B81D",
        "2B820-2CEA1 2CEB0-2EBE0 2F800-2FA1D 30000-3134A">>)

\* [\+\-\*/\^\(\),]
OpChars == {"+", "-", "*", "/", "^", "(", ")", ","}

\* [ \t]
SkipChars == {" ", "\t"}

\* the code points str.strip() removes
StripChars ==
    CharsOf(
      <<"00009-0000D 0001C-00020 00085-00085 000A0-000A0 01680-01680",
        "02000-0200A 02028-02029 0202F-0202F 0205F-0205F 03000-03000">>)

\* str.lower() of one character that it changes, as a sequence of
\* characters.  A run first-last/step>image maps every step-th code point
\* from first to last: first to image, and the following ones to the code
\* points as far from image (A-Z is 00041-0005A/1>00061).  U+0130 is mapped
\* to two characters, and U+03A3 (capital sigma) by its context in
\* LowerFrom.
UpperToLower ==
    LET runs ==
          <<"00041-0005A/1>00061 000C0-000D6/1>000E0 000D8-000DE/1>000F8",
            "00100-0012E/2>00101 00132-00136/2>00133 00139-00147/2>0013A",
            "0014A-00176/2>0014B 00178-00178/1>000FF 00179-0017D/2>0017A",
            "00181-00181/1>00253 00182-00184/2>00183 00186-00186/1>00254",
            "00187-00187/1>00188 00189-0018A/1>00256 0018B-0018B/1>0018C",
            "0018E-0018E/1>001DD 0018F-0018F/1>00259 00190-00190/1>0025B",
            "00191-00191/1>00192 00193-00193/1>00260 00194-00194/1>00263",
            "00196-00196/1>00269 00197-00197/1>00268 00198-00198/1>00199",
            "0019C-0019C/1>0026F 0019D-0019D/1>00272 0019F-0019F/1>00275",
            "001A0-001A4/2>001A1 001A6-001A6/1>00280 001A7-001A7/1>001A8",
            "001A9-001A9/1>00283 001AC-001AC/1>001AD 001AE-001AE/1>00288",
            "001AF-001AF/1>001B0 001B1-001B2/1>0028A 001B3-001B5/2>001B4",
            "001B7-001B7/1>00292 001B8-001B8/1>001B9 001BC-001BC/1>001BD",
            "001C4-001C4/1>001C6 001C5-001C5/1>001C6 001C7-001C7/1>001C9",
            "001C8-001C8/1>001C9 001CA-001CA/1>001CC 001CB-001DB/2>001CC",
            "001DE-001EE/2>001DF 001F1-001F1/1>001F3 001F2-001F4/2>001F3",
            "001F6-001F6/1>00195 001F7-001F7/1>001BF 001F8-0021E/2>001F9",
            "00220-00220/1>0019E 00222-00232/2>00223 0023A-0023A/1>02C65",
            "0023B-0023B/1>0023C 0023D-0023D/1>0019A 0023E-0023E/1>02C66",
            "00241-00241/1>00242 00243-00243/1>00180 00244-00244/1>00289",
            "00245-00245/1>0028C 00246-0024E/2>00247 00370-00372/2>00371",
            "00376-00376/1>00377 0037F-0037F/1>003F3 00386-00386/1>003AC",
            "00388-0038A/1>003AD 0038C-0038C/1>003CC 0038E-0038F/1>003CD",
            "00391-003A1/1>003B1 003A3-003AB/1>003C3 003CF-003CF/1>003D7",
            "003D8-003EE/2>003D9 003F4-003F4/1>003B8 003F7-003F7/1>003F8",
            "003F9-003F9/1>003F2 003FA-003FA/1>003FB 003FD-003FF/1>0037B",
            "00400-0040F/1>00450 00410-0042F/1>00430 00460-00480/2>00461",
            "0048A-004BE/2>0048B 004C0-004C0/1>004CF 004C1-004CD/2>004C2",
            "004D0-0052E/2>004D1 00531-00556/1>00561 010A0-010C5/1>02D00",
            "010C7-010C7/1>02D27 010CD-010CD/1>02D2D 013A0-013EF/1>0AB70",
            "013F0-013F5/1>013F8 01C90-01CBA/1>010D0 01CBD-01CBF/1>010FD",
            "01E00-01E94/2>01E01 01E9E-01E9E/1>000DF 01EA0-01EFE/2>01EA1",
            "01F08-01F0F/1>01F00 01F18-01F1D/1>01F10 01F28-01F2F/1>01F20",
            "01F38-01F3F/1>01F30 01F48-01F4D/1>01F40 01F59-01F5F/2>01F51",
            "01F68-01F6F/1>01F60 01F88-01F8F/1>01F80 01F98-01F9F/1>01F90",
            "01FA8-01FAF/1>01FA0 01FB8-01FB9/1>01FB0 01FBA-01FBB/1>01F70",
            "01FBC-01FBC/1>01FB3 01FC8-01FCB/1>01F72 01FCC-01FCC/1>01FC3",
            "01FD8-01FD9/1>01FD0 01FDA-01FDB/1>01F76 01FE8-01FE9/1>01FE0",
            "01FEA-01FEB/1>01F7A 01FEC-01FEC/1>01FE5 01FF8-01FF9/1>01F78",
            "01FFA-01FFB/1>01F7C 01FFC-01FFC/1>01FF3 02126-02126/1>003C9",
            "0212A-0212A/1>0006B 0212B-0212B/1>000E5 02132-02132/1>0214E",
            "02160-0216F/1>02170 02183-02183/1>02184 024B6-024CF/1>024D0",
            "02C00-02C2F/1>02C30 02C60-02C60/1>02C61 02C62-02C62/1>0026B",
            "02C63-02C63/1>01D7D 02C64-02C64/1>0027D 02C67-02C6B/2>02C68",
            "02C6D-02C6D/1>00251 02C6E-02C6E/1>00271 02C6F-02C6F/1>00250",
            "02C70-02C70/1>00252 02C72-02C72/1>02C73 02C75-02C75/1>02C76",
            "02C7E-02C7F/1>0023F 02C80-02CE2/2>02C81 02CEB-02CED/2>02CEC",
            "02CF2-02CF2/1>02CF3 0A640-0A66C/2>0A641 0A680-0A69A/2>0A681",
            "0A722-0A72E/2>0A723 0A732-0A76E/2>0A733 0A779-0A77B/2>0A77A",
            "0A77D-0A77D/1>01D79 0A77E-0A786/2>0A77F 0A78B-0A78B/1>0A78C",
            "0A78D-0A78D/1>00265 0A790-0A792/2>0A791 0A796-0A7A8/2>0A797",
            "0A7AA-0A7AA/1>00266 0A7AB-0A7AB/1>0025C 0A7AC-0A7AC/1>00261",
            "0A7AD-0A7AD/1>0026C 0A7AE-0A7AE/1>0026A 0A7B0-0A7B0/1>0029E",
            "0A7B1-0A7B1/1>00287 0A7B2-0A7B2/1>0029D 0A7B3-0A7B3/1>0AB53",
            "0A7B4-0A7C2/2>0A7B5 0A7C4-0A7C4/1>0A794 0A7C5-0A7C5/1>00282",
            "0A7C6-0A7C6/1>01D8E 0A7C7-0A7C9/2>0A7C8 0A7D0-0A7D0/1>0A7D1",
            "0A7D6-0A7D8/2>0A7D7 0A7F5-0A7F5/1>0A7F6 0FF21-0FF3A/1>0FF41",
            "10400-10427/1>10428 104B0-104D3/1>104D8 10570-1057A/1>10597",
            "1057C-1058A/1>105A3 1058C-10592/1>105B3 10594-10595/1>105BB",
            "10C80-10CB2/1>10CC0 118A0-118BF/1>118C0 16E40-16E5F/1>16E60",
            "1E900-1E921/1>1E922">>
        \* the pairs of the run first-last/step>image
        Run(first, last, step, image) ==
            {<<chr(first + n * step), <<chr(image + n * step)>> >> :
                n \in 0..((last - first) \div step)}
        Map(pairs) ==
            [c \in {p[1] : p \in pairs} |->
                (CHOOSE p \in pairs : p[1] = c)[2]]
    IN  Map(UNION {UNION {Run(Code(row, 20 * k + 1), Code(row, 20 * k + 7),
                              IF SubSeq(row, 20 * k + 13, 20 * k + 13) = "1"
                              THEN 1 ELSE 2,
                              Code(row, 20 * k + 15)) :
                             k \in 0..(Len(row) \div 20)} :
                      row \in {runs[j] : j \in DOMAIN runs}}
            \cup {<<"U+0130", <<"i", "U+0307">> >>})

\* the code points with the property Case_Ignorable
CaseIgnorable ==
    CharsOf(
      <<"00027-00027 0002E-0002E 0003A-0003A 0005E-0005E 00060-00060",
        "000A8-000A8 000AD-000AD 000AF-000AF 000B4-000B4 000B7-000B8",
        "002B0-0036F 00374-00375 0037A-0037A 00384-00385 00387-00387",
        "00483-00489 00559-00559 0055F-0055F 00591-005BD 005BF-005BF",
        "005C1-005C2 005C4-005C5 005C7-005C7 005F4-005F4 00600-00605",
        "00610-0061A 0061C-0061C 00640-00640 0064B-0065F 00670-00670",
        "006D6-006DD 006DF-006E8 006EA-006ED 0070F-0070F 00711-00711",
        "00730-0074A 007A6-007B0 007EB-007F5 007FA-007FA 007FD-007FD",
        "00816-0082D 00859-0085B 00888-00888 00890-00891 00898-0089F",
        "008C9-00902 0093A-0093A 0093C-0093C 00941-00948 0094D-0094D",
        "00951-00957 00962-00963 00971-00971 00981-00981 009BC-009BC",
        "009C1-009C4 009CD-009CD 009E2-009E3 009FE-009FE 00A01-00A02",
        "00A3C-00A3C 00A41-00A42 00A47-00A48 00A4B-00A4D 00A51-00A51",
        "00A70-00A71 00A75-00A75 00A81-00A82 00ABC-00ABC 00AC1-00AC5",
        "00AC7-00AC8 00ACD-00ACD 00AE2-00AE3 00AFA-00AFF 00B01-00B01",
        "00B3C-00B3C 00B3F-00B3F 00B41-00B44 00B4D-00B4D 00B55-00B56",
        "00B62-00B63 00B82-00B82 00BC0-00BC0 00BCD-00BCD 00C00-00C00",
        "00C04-00C04 00C3C-00C3C 00C3E-00C40 00C46-00C48 00C4A-00C4D",
        "00C55-00C56 00C62-00C63 00C81-00C81 00CBC-00CBC 00CBF-00CBF",
        "00CC6-00CC6 00CCC-00CCD 00CE2-00CE3 00D00-00D01 00D3B-00D3C",
        "00D41-00D44 00D4D-00D4D 00D62-00D63 00D81-00D81 00DCA-00DCA",
        "00DD2-00DD4 00DD6-00DD6 00E31-00E31 00E34-00E3A 00E46-00E4E",
        "00EB1-00EB1 00EB4-00EBC 00EC6-00EC6 00EC8-00ECD 00F18-00F19",
        "00F35-00F35 00F37-00F37 00F39-00F39 00F71-00F7E 00F80-00F84",
        "00F86-00F87 00F8D-00F97 00F99-00FBC 00FC6-00FC6 0102D-01030",
        "01032-01037 01039-0103A 0103D-0103E 01058-01059 0105E-01060",
        "01071-01074 01082-01082 01085-01086 0108D-0108D 0109D-0109D",
        "010FC-010FC 0135D-0135F 01712-01714 01732-01733 01752-01753",
        "01772-01773 017B4-017B5 017B7-017BD 017C6-017C6 017C9-017D3",
        "017D7-017D7 017DD-017DD 0180B-0180F 01843-01843 01885-01886",
        "018A9-018A9 01920-01922 01927-01928 01932-01932 01939-0193B",
        "01A17-01A18 01A1B-01A1B 01A56-01A56 01A58-01A5E 01A60-01A60",
        "01A62-01A62 01A65-01A6C 01A73-01A7C 01A7F-01A7F 01AA7-01AA7",
        "01AB0-01ACE 01B00-01B03 01B34-01B34 01B36-01B3A 01B3C-01B3C",
        "01B42-01B42 01B6B-01B73 01B80-01B81 01BA2-01BA5 01BA8-01BA9",
        "01BAB-01BAD 01BE6-01BE6 01BE8-01BE9 01BED-01BED 01BEF-01BF1",
        "01C2C-01C33 01C36-01C37 01C78-01C7D 01CD0-01CD2 01CD4-01CE0",
        "01CE2-01CE8 01CED-01CED 01CF4-01CF4 01CF8-01CF9 01D2C-01D6A",
        "01D78-01D78 01D9B-01DFF 01FBD-01FBD 01FBF-01FC1 01FCD-01FCF",
        "01FDD-01FDF 01FED-01FEF 01FFD-01FFE 0200B-0200F 02018-02019",
        "02024-02024 02027-02027 0202A-0202E 02060-02064 02066-0206F",
        "02071-02071 0207F-0207F 02090-0209C 020D0-020F0 02C7C-02C7D",
        "02CEF-02CF1 02D6F-02D6F 02D7F-02D7F 02DE0-02DFF 02E2F-02E2F",
        "03005-03005 0302A-0302D 03031-03035 0303B-0303B 03099-0309E",
        "030FC-030FE 0A015-0A015 0A4F8-0A4FD 0A60C-0A60C 0A66F-0A672",
        "0A674-0A67D 0A67F-0A67F 0A69C-0A69F 0A6F0-0A6F1 0A700-0A721",
        "0A770-0A770 0A788-0A78A 0A7F2-0A7F4 0A7F8-0A7F9 0A802-0A802",
        "0A806-0A806 0A80B-0A80B 0A825-0A826 0A82C-0A82C 0A8C4-0A8C5",
        "0A8E0-0A8F1 0A8FF-0A8FF 0A926-0A92D 0A947-0A951 0A980-0A982",
        "0A9B3-0A9B3 0A9B6-0A9B9 0A9BC-0A9BD 0A9CF-0A9CF 0A9E5-0A9E6",
        "0AA29-0AA2E 0AA31-0AA32 0AA35-0AA36 0AA43-0AA43 0AA4C-0AA4C",
        "0AA70-0AA70 0AA7C-0AA7C 0AAB0-0AAB0 0AAB2-0AAB4 0AAB7-0AAB8",
        "0AABE-0AABF 0AAC1-0AAC1 0AADD-0AADD 0AAEC-0AAED 0AAF3-0AAF4",
        "0AAF6-0AAF6 0AB5B-0AB5F 0AB69-0AB6B 0ABE5-0ABE5 0ABE8-0ABE8",
        "0ABED-0ABED 0FB1E-0FB1E 0FBB2-0FBC2 0FE00-0FE0F 0FE13-0FE13",
        "0FE20-0FE2F 0FE52-0FE52 0FE55-0FE55 0FEFF-0FEFF 0FF07-0FF07",
        "0FF0E-0FF0E 0FF1A-0FF1A 0FF3E-0FF3E 0FF40-0FF40 0FF70-0FF70",
        "0FF9E-0FF9F 0FFE3-0FFE3 0FFF9-0FFFB 101FD-101FD 102E0-102E0",
        "10376-1037A 10780-10785 10787-107B0 107B2-107BA 10A01-10A03",
        "10A05-10A06 10A0C-10A0F 10A38-10A3A 10A3F-10A3F 10AE5-10AE6",
        "10D24-10D27 10EAB-10EAC 10F46-10F50 10F82-10F85 11001-11001",
        "11038-11046 11070-11070 11073-11074 1107F-11081 110B3-110B6",
        "110B9-110BA 110BD-110BD 110C2-110C2 110CD-110CD 11100-11102",
        "11127-1112B 1112D-11134 11173-11173 11180-11181 111B6-111BE",
        "111C9-111CC 111CF-111CF 1122F-11231 11234-11234 11236-11237",
        "1123E-1123E 112DF-112DF 112E3-112EA 11300-11301 1133B-1133C",
        "11340-11340 11366-1136C 11370-11374 11438-1143F 11442-11444",
        "11446-11446 1145E-1145E 114B3-114B8 114BA-114BA 114BF-114C0",
        "114C2-114C3 115B2-115B5 115BC-115BD 115BF-115C0 115DC-115DD",
        "11633-1163A 1163D-1163D 1163F-11640 116AB-116AB 116AD-116AD",
        "116B0-116B5 116B7-116B7 1171D-1171F 11722-11725 11727-1172B",
        "1182F-11837 11839-1183A 1193B-1193C 1193E-1193E 11943-11943",
        "119D4-119D7 119DA-119DB 119E0-119E0 11A01-11A0A 11A33-11A38",
        "11A3B-11A3E 11A47-11A47 11A51-11A56 11A59-11A5B 11A8A-11A96",
        "11A98-11A99 11C30-11C36 11C38-11C3D 11C3F-11C3F 11C92-11CA7",
        "11CAA-11CB0 11CB2-11CB3 11CB5-11CB6 11D31-11D36 11D3A-11D3A",
        "11D3C-11D3D 11D3F-11D45 11D47-11D47 11D90-11D91 11D95-11D95",
        "11D97-11D97 11EF3-11EF4 13430-13438 16AF0-16AF4 16B30-16B36",
        "16B40-16B43 16F4F-16F4F 16F8F-16F9F 16FE0-16FE1 16FE3-16FE4",
        "1AFF0-1AFF3 1AFF5-1AFFB 1AFFD-1AFFE 1BC9D-1BC9E 1BCA0-1BCA3",
        "1CF00-1CF2D 1CF30-1CF46 1D167-1D169 1D173-1D182 1D185-1D18B",
        "1D1AA-1D1AD 1D242-1D244 1DA00-1DA36 1DA3B-1DA6C 1DA75-1DA75",
        "1DA84-1DA84 1DA9B-1DA9F 1DAA1-1DAAF 1E000-1E006 1E008-1E018",
        "1E01B-1E021 1E023-1E024 1E026-1E02A 1E130-1E13D 1E2AE-1E2AE",
        "1E2EC-1E2EF 1E8D0-1E8D6 1E944-1E94B 1F3FB-1F3FF E0001-E0001",
        "E0020-E007F E0100-E01EF">>)

\* the code points with the property Cased that are not Case_Ignorable
Cased ==
    CharsOf(
      <<"00041-0005A 00061-0007A 000AA-000AA 000B5-000B5 000BA-000BA",
        "000C0-000D6 000D8-000F6 000F8-001BA 001BC-001BF 001C4-00293",
        "00295-002AF 00370-00373 00376-00377 0037B-0037D 0037F-0037F",
        "00386-00386 00388-0038A 0038C-0038C 0038E-003A1 003A3-003F5",
        "003F7-00481 0048A-0052F 00531-00556 00560-00588 010A0-010C5",
        "010C7-010C7 010CD-010CD 010D0-010FA 010FD-010FF 013A0-013F5",
        "013F8-013FD 01C80-01C88 01C90-01CBA 01CBD-01CBF 01D00-01D2B",
        "01D6B-01D77 01D79-01D9A 01E00-01F15 01F18-01F1D 01F20-01F45",
        "01F48-01F4D 01F50-01F57 01F59-01F59 01F5B-01F5B 01F5D-01F5D",
        "01F5F-01F7D 01F80-01FB4 01FB6-01FBC 01FBE-01FBE 01FC2-01FC4",
        "01FC6-01FCC 01FD0-01FD3 01FD6-01FDB 01FE0-01FEC 01FF2-01FF4",
        "01FF6-01FFC 02102-02102 02107-02107 0210A-02113 02115-02115",
        "02119-0211D 02124-02124 02126-02126 02128-02128 0212A-0212D",
        "0212F-02134 02139-02139 0213C-0213F 02145-02149 0214E-0214E",
        "02160-0217F 02183-02184 024B6-024E9 02C00-02C7B 02C7E-02CE4",
        "02CEB-02CEE 02CF2-02CF3 02D00-02D25 02D27-02D27 02D2D-02D2D",
        "0A640-0A66D 0A680-0A69B 0A722-0A76F 0A771-0A787 0A78B-0A78E",
        "0A790-0A7CA 0A7D0-0A7D1 0A7D3-0A7D3 0A7D5-0A7D9 0A7F5-0A7F6",
        "0A7FA-0A7FA 0AB30-0AB5A 0AB60-0AB68 0AB70-0ABBF 0FB00-0FB06",
        "0FB13-0FB17 0FF21-0FF3A 0FF41-0FF5A 10400-1044F 104B0-104D3",
        "104D8-104FB 10570-1057A 1057C-1058A 1058C-10592 10594-10595",
        "10597-105A1 105A3-105B1 105B3-105B9 105BB-105BC 10C80-10CB2",
        "10CC0-10CF2 118A0-118DF 16E40-16E7F 1D400-1D454 1D456-1D49C",
        "1D49E-1D49F 1D4A2-1D4A2 1D4A5-1D4A6 1D4A9-1D4AC 1D4AE-1D4B9",
        "1D4BB-1D4BB 1D4BD-1D4C3 1D4C5-1D505 1D507-1D50A 1D50D-1D514",
        "1D516-1D51C 1D51E-1D539 1D53B-1D53E 1D540-1D544 1D546-1D546",
        "1D54A-1D550 1D552-1D6A5 1D6A8-1D6C0 1D6C2-1D6DA 1D6DC-1D6FA",
        "1D6FC-1D714 1D716-1D734 1D736-1D74E 1D750-1D76E 1D770-1D788",
        "1D78A-1D7A8 1D7AA-1D7C2 1D7C4-1D7CB 1DF00-1DF09 1DF0B-1DF1E",
        "1E900-1E943 1F130-1F149 1F150-1F169 1F170-1F189">>)

\* the position of the nearest character of txt from i in direction step
\* that is not Case_Ignorable, 0 when there is none
RECURSIVE Nearest(_, _, _)
Nearest(txt, i, step) ==
    IF i < 1 \/ i > Len(txt) THEN 0
    ELSE IF txt[i] \in CaseIgnorable THEN Nearest(txt, i + step, step)
    ELSE i

\* the capital sigma at i is in a final position: a cased letter precedes
\* it and none follows it
final_sigma(txt, i) ==
    LET Final(before, after) ==
            /\ before # 0 /\ txt[before] \in Cased
            /\ (after = 0 \/ txt[after] \notin Cased)
    IN  Final(Nearest(txt, i - 1, -1), Nearest(txt, i + 1, 1))

\* str.lower() of txt from position i
RECURSIVE LowerFrom(_, _)
LowerFrom(txt, i) ==
    IF i > Len(txt) THEN <<>>
    ELSE (IF txt[i] = "U+03A3"
          THEN (IF final_sigma(txt, i) THEN <<"U+03C2">> ELSE <<"U+03C3">>)
          ELSE IF txt[i] \in DOMAIN UpperToLower THEN UpperToLower[txt[i]]
          ELSE <<txt[i]>>)
         \o LowerFrom(txt, i + 1)

\* str.lower()
lower(txt) == LowerFrom(txt, 1)

RECURSIVE LStrip(_)
LStrip(s) ==
    IF s # <<>> /\ s[1] \in StripChars THEN LStrip(Tail(s)) ELSE s

RECURSIVE RStrip(_)
RStrip(s) ==
    IF s # <<>> /\ Last(s) \in StripChars THEN RStrip(Front(s)) ELSE s

\* A variant of strip that removes nothing; the property C16
\* distinguishes the two.
strip_Nothing(s) == s

\* str.strip()
strip(s) == RStrip(LStrip(s))

----------------------------------------------------------------------------
(* tokenize *)

\* the first position at or after pos whose character is not in cls
RECURSIVE SpanEnd(_, _, _)
SpanEnd(expr, pos, cls) ==
    IF pos <= Len(expr) /\ expr[pos] \in cls
    THEN SpanEnd(expr, pos + 1, cls)
    ELSE pos

\* A variant of the pattern below whose NUMBER takes a point that no digit
\* follows; the property C15 distinguishes the two.
_TOKEN_RE_TrailingPoint(expr, pos) ==
    LET c == expr[pos] IN
    IF c \in Digits
    THEN LET \* the digits end before e1; a fraction may follow
             Number(e1) ==
                 LET frac == e1 <= Len(expr) /\ expr[e1] = "."
                 IN  [typ |-> "NUMBER",
                      end |-> IF frac THEN SpanEnd(expr, e1 + 1, Digits)
                                      ELSE e1]
         IN  Number(SpanEnd(expr, pos, Digits))
    ELSE IF c \in IdStart
    THEN [typ |-> "ID", end |-> SpanEnd(expr, pos + 1, WordChars)]
    ELSE IF c \in OpChars
    THEN [typ |-> "OP", end |-> pos + 1]
    ELSE IF c \in SkipChars
    THEN [typ |-> "SKIP", end |-> SpanEnd(expr, pos, SkipChars)]
    ELSE [typ |-> "NOMATCH", end |-> pos]

\* A variant of the pattern below in which a space or tab is an operator
\* character; the property C23 distinguishes the two.
_TOKEN_RE_BlankToken(expr, pos) ==
    LET c == expr[pos] IN
    IF c \in Digits
    THEN LET \* the digits end before e1; a fraction may follow
             Number(e1) ==
                 LET frac == /\ e1 + 1 <= Len(expr)
                             /\ expr[e1] = "."
                             /\ expr[e1 + 1] \in Digits
                 IN  [typ |-> "NUMBER",
                      end |-> IF frac THEN SpanEnd(expr, e1 + 1, Digits)
                                      ELSE e1]
         IN  Number(SpanEnd(expr, pos, Digits))
    ELSE IF c \in IdStart
    THEN [typ |-> "ID", end |-> SpanEnd(expr, pos + 1, WordChars)]
    ELSE IF c \in OpChars \cup SkipChars
    THEN [typ |-> "OP", end |-> pos + 1]
    ELSE [typ |-> "NOMATCH", end |-> pos]

\* _TOKEN_RE.match(expr, pos): the alternatives NUMBER, ID, OP, SKIP in
\* that order; end is the position after the match (positions are 1-based)
_TOKEN_RE(expr, pos) ==
    LET c == expr[pos] IN
    IF c \in Digits
    THEN LET \* the digits end before e1; a fraction may follow
             Number(e1) ==
                 LET frac == /\ e1 + 1 <= Len(expr)
                             /\ expr[e1] = "."
                             /\ expr[e1 + 1] \in Digits
                 IN  [typ |-> "NUMBER",
                      end |-> IF frac THEN SpanEnd(expr, e1 + 1, Digits)
                                      ELSE e1]
         IN  Number(SpanEnd(expr, pos, Digits))
    ELSE IF c \in IdStart
    THEN [typ |-> "ID", end |-> SpanEnd(expr, pos + 1, WordChars)]
    ELSE IF c \in OpChars
    THEN [typ |-> "OP", end |-> pos + 1]
    ELSE IF c \in SkipChars
    THEN [typ |-> "SKIP", end |-> SpanEnd(expr, pos, SkipChars)]
    ELSE [typ |-> "NOMATCH", end |-> pos]

\* The generator run to its end: the tokens yielded, and the error raised
\* after them (None when the input is exhausted).  at is the 0-based offset
\* of the message.
RECURSIVE TokenizeFrom(_, _, _)
TokenizeFrom(expr, pos, toks) ==
    IF pos > Len(expr)
    THEN [toks |-> toks, err |-> None]
    ELSE LET \* the rest of the loop body for the match m
             Matched(m) ==
                 IF m.typ = "NOMATCH"
                 THEN [toks |-> toks,
                       err |-> <<"Unexpected character", pos - 1, expr[pos]>>]
                 ELSE IF m.typ = "SKIP"
                 THEN TokenizeFrom(expr, m.end, toks)
                 ELSE IF m.typ = "OP"
                 THEN TokenizeFrom(expr, m.end,
                                   Append(toks, <<"OP", expr[pos]>>))
                 ELSE TokenizeFrom(expr, m.end,
                          Append(toks,
                                 <<m.typ, SubSeq(expr, pos, m.end - 1)>>))
         IN  Matched(_TOKEN_RE(expr, pos))

tokenize(expr) == TokenizeFrom(expr, 1, <<>>)

----------------------------------------------------------------------------
(* to_rpn *)

_PRECEDENCE ==
    ("^" :> <<4, "right">>) @@ ("*" :> <<3, "left">>) @@
    ("/" :> <<3, "left">>) @@ ("+" :> <<2, "left">>) @@
    ("-" :> <<2, "left">>)

IsLParen(tok) == tok[1] = "OP" /\ tok[2] = "("

\* A variant of the loop below that also pops the "(" of a function call
\* and stops at the FUNC marker beneath it; the property C30 distinguishes
\* the two.
RECURSIVE PopToParen_ToCall(_, _)
PopToParen_ToCall(out, stack) ==
    IF stack = <<>>
    THEN [out |-> out, stack |-> stack]
    ELSE IF IsLParen(Last(stack))
    THEN IF Len(stack) > 1 /\ stack[Len(stack) - 1][1] = "FUNC"
         THEN [out |-> out, stack |-> Front(stack)]
         ELSE [out |-> out, stack |-> stack]
    ELSE PopToParen_ToCall(Append(out, Last(stack)), Front(stack))

\* while stack and not (stack[-1] == ("OP", "(")): out.append(stack.pop())
RECURSIVE PopToParen(_, _)
PopToParen(out, stack) ==
    IF stack # <<>> /\ ~IsLParen(Last(stack))
    THEN PopToParen(Append(out, Last(stack)), Front(stack))
    ELSE [out |-> out, stack |-> stack]

\* is_unary
is_unary(prev_token) ==
    \/ prev_token = None
    \/ /\ prev_token[1] = "OP"
       /\ prev_token[2] \in {"(", "+", "-", "*", "/", "^", ","}

\* A parser state: the output, the operator stack, the arity counters, the
\* previous token and the error raised (None while the loop runs).
ParserInit ==
    [out |-> <<>>, stack |-> <<>>, arg_count |-> <<>>,
     prev_token |-> None, err |-> None]

Raise(ps, msg) == [ps EXCEPT !.err = msg]

\* A variant of Ok that returns the output in reverse order; the property
\* C22 distinguishes the two.
Ok_Reversed(rpn) ==
    [status |-> "ok", msg |-> None,
     rpn |-> [k \in 1..Len(rpn) |-> rpn[Len(rpn) + 1 - k]]]

\* the result of a call: status "ok" or the exception class raised, msg the
\* message of a raised ValueError as a tuple
Ok(rpn) == [status |-> "ok", msg |-> None, rpn |-> rpn]
Error(cls, msg) == [status |-> cls, msg |-> msg, rpn |-> <<>>]

(* to_rpn of parametric_curve_node.py, parametric_surface_node.py and
   parametric_transformation_matrix_node.py *)

\* A variant of the loop below in which an incoming ^ yields to a ^ on the
\* stack as a left-associative operator does; the precedence property C3
\* distinguishes the two.
RECURSIVE PopOperators_LeftAssoc(_, _, _)
PopOperators_LeftAssoc(out, stack, txt) ==
    IF stack = <<>>
    THEN [out |-> out, stack |-> stack]
    ELSE LET top == Last(stack) IN
         IF top[1] = "OP" /\ top[2] \in DOMAIN _PRECEDENCE
         THEN IF _PRECEDENCE[txt][1] <= _PRECEDENCE[top[2]][1]
              THEN PopOperators_LeftAssoc(Append(out, top), Front(stack), txt)
              ELSE [out |-> out, stack |-> stack]
         ELSE IF top[1] = "UNARY"
         THEN PopOperators_LeftAssoc(Append(out, top), Front(stack), txt)
         ELSE [out |-> out, stack |-> stack]

\* the "binary operators" while loop
RECURSIVE PopOperators(_, _, _)
PopOperators(out, stack, txt) ==
    IF stack = <<>>
    THEN [out |-> out, stack |-> stack]
    ELSE LET top == Last(stack) IN
         IF top[1] = "OP" /\ top[2] \in DOMAIN _PRECEDENCE
         THEN LET p1 == _PRECEDENCE[txt][1]
                  assoc1 == _PRECEDENCE[txt][2]
                  p2 == _PRECEDENCE[top[2]][1]
              IN  IF \/ assoc1 = "left" /\ p1 <= p2
                     \/ assoc1 = "right" /\ p1 < p2
                  THEN PopOperators(Append(out, top), Front(stack), txt)
                  ELSE [out |-> out, stack |-> stack]
         ELSE IF top[1] = "UNARY"
         THEN PopOperators(Append(out, top), Front(stack), txt)
         ELSE [out |-> out, stack |-> stack]

\* one iteration of the for loop over the tokens
to_rpn_step(ps, tok) ==
    LET typ == tok[1]
        txt == tok[2]
        next == [ps EXCEPT !.prev_token = tok]
    IN
    IF typ = "NUMBER"
    THEN [next EXCEPT !.out = Append(@, <<"NUMBER", txt>>)]
    ELSE IF typ = "ID"
    THEN [next EXCEPT !.out = Append(@, <<"ID", txt>>)]
    ELSE IF txt = "("
    THEN IF ps.prev_token # None /\ ps.prev_token[1] = "ID"
         THEN [next EXCEPT
                 !.stack = Append(Append(@, <<"FUNC", ps.prev_token[2]>>),
                                  <<"OP", "(">>),
                 !.out = Front(@),
                 !.arg_count = Append(@, 1)]
         ELSE [next EXCEPT !.stack = Append(@, <<"OP", "(">>)]
    ELSE IF txt = ","
    THEN LET p == PopToParen(ps.out, ps.stack) IN
         IF p.stack = <<>>
         THEN Raise(ps, <<"Misplaced comma or mismatched parentheses">>)
         ELSE IF ps.arg_count = <<>>
         THEN Raise(ps, <<"Comma outside of function call">>)
         ELSE [next EXCEPT
                 !.out = p.out, !.stack = p.stack,
                 !.arg_count = [@ EXCEPT ![Len(@)] = @ + 1]]
    ELSE IF txt = ")"
    THEN LET p == PopToParen(ps.out, ps.stack) IN
         IF p.stack = <<>>
         THEN Raise(ps, <<"Mismatched parentheses">>)
         ELSE LET stack == Front(p.stack) IN
              IF stack # <<>> /\ Last(stack)[1] = "FUNC"
              THEN LET func == Last(stack)[2]
                       nargs == IF ps.arg_count # <<>>
                                THEN Last(ps.arg_count) ELSE 1
                   IN  [next EXCEPT
                          !.out = Append(p.out, <<"FUNC", func, nargs>>),
                          !.stack = Front(stack),
                          !.arg_count = IF @ # <<>> THEN Front(@) ELSE @]
              ELSE [next EXCEPT !.out = p.out, !.stack = stack]
    ELSE IF is_unary(ps.prev_token) /\ txt \in {"-", "+"}
    THEN IF txt = "-"
         THEN [next EXCEPT !.stack = Append(@, <<"UNARY", "neg">>)]
         ELSE next
    ELSE LET p == PopOperators(ps.out, ps.stack, txt) IN
         [next EXCEPT !.out = p.out, !.stack = Append(p.stack, <<"OP", txt>>)]

\* the for loop: stops at the first error raised
RECURSIVE to_rpn_loop(_, _, _)
to_rpn_loop(ps, toks, i) ==
    IF i > Len(toks) \/ ps.err # None
    THEN ps
    ELSE to_rpn_loop(to_rpn_step(ps, toks[i]), toks, i + 1)

\* the final while loop
RECURSIVE to_rpn_flush(_, _)
to_rpn_flush(out, stack) ==
    IF stack = <<>>
    THEN Ok(out)
    ELSE LET tok == Last(stack) IN
         IF tok[1] = "OP" /\ tok[2] \in {"(", ")"}
         THEN Error("ValueError", <<"Mismatched parentheses at end">>)
         ELSE to_rpn_flush(Append(out, tok), Front(stack))

\* The tokens are pulled from the generator one by one, so an error of the
\* parser on a token comes before an error of tokenize further right.
to_rpn(expr0) ==
    LET \* tk is the run of tokenize and ps the state after the for loop
        Parsed(tk, ps) ==
            IF ps.err # None THEN Error("ValueError", ps.err)
            ELSE IF tk.err # None THEN Error("ValueError", tk.err)
            ELSE to_rpn_flush(ps.out, ps.stack)
        Tokens(tk) == Parsed(tk, to_rpn_loop(ParserInit, tk.toks, 1))
        \* expr is expr.strip()
        Stripped(expr) ==
            IF expr = <<>>
            THEN Error("ValueError", <<"Expression is empty">>)
            ELSE Tokens(tokenize(expr))
    IN  Stripped(strip(expr0))

(* to_rpn of calculate_surface_node.py *)

\* A variant of the loop below that also pops a pending unary minus, as the
\* loop of the parametric add-ons does; the property C4 distinguishes the
\* two.
RECURSIVE calc_PopOperators_Unary(_, _, _)
calc_PopOperators_Unary(out, stack, txt) ==
    IF stack = <<>>
    THEN [out |-> out, stack |-> stack]
    ELSE LET top == Last(stack) IN
         IF top[1] = "OP"
         THEN LET top_prec == IF top[2] \in DOMAIN _PRECEDENCE
                              THEN _PRECEDENCE[top[2]][1] ELSE 0
                  txt_prec == IF txt \in DOMAIN _PRECEDENCE
                              THEN _PRECEDENCE[txt][1] ELSE 0
                  txt_assoc == IF txt \in DOMAIN _PRECEDENCE
                               THEN _PRECEDENCE[txt][2] ELSE "left"
              IN  IF \/ txt_assoc = "left" /\ top_prec >= txt_prec
                     \/ txt_assoc = "right" /\ top_prec > txt_prec
                  THEN calc_PopOperators_Unary(Append(out, top), Front(stack),
                                               txt)
                  ELSE [out |-> out, stack |-> stack]
         ELSE IF top[1] = "UNARY"
         THEN calc_PopOperators_Unary(Append(out, top), Front(stack), txt)
         ELSE [out |-> out, stack |-> stack]

\* the while loop of the binary operators
RECURSIVE calc_PopOperators(_, _, _)
calc_PopOperators(out, stack, txt) ==
    IF stack = <<>>
    THEN [out |-> out, stack |-> stack]
    ELSE LET top == Last(stack) IN
         IF top[1] = "OP"
         THEN LET top_prec == IF top[2] \in DOMAIN _PRECEDENCE
                              THEN _PRECEDENCE[top[2]][1] ELSE 0
                  txt_prec == IF txt \in DOMAIN _PRECEDENCE
                              THEN _PRECEDENCE[txt][1] ELSE 0
                  txt_assoc == IF txt \in DOMAIN _PRECEDENCE
                               THEN _PRECEDENCE[txt][2] ELSE "left"
              IN  IF \/ txt_assoc = "left" /\ top_prec >= txt_prec
                     \/ txt_assoc = "right" /\ top_prec > txt_prec
                  THEN calc_PopOperators(Append(out, top), Front(stack), txt)
                  ELSE [out |-> out, stack |-> stack]
         ELSE [out |-> out, stack |-> stack]

calc_to_rpn_step(ps, tok) ==
    LET typ == tok[1]
        txt == tok[2]
        next == [ps EXCEPT !.prev_token = tok]
    IN
    IF typ = "NUMBER"
    THEN [next EXCEPT !.out = Append(@, <<"NUMBER", txt>>)]
    ELSE IF typ = "ID"
    THEN [next EXCEPT !.out = Append(@, <<"ID", txt>>)]
    ELSE IF txt = "("
    THEN IF ps.prev_token # None /\ ps.prev_token[1] = "ID"
         THEN [next EXCEPT
                 !.stack = Append(Append(@, <<"FUNC", ps.prev_token[2]>>),
                                  <<"OP", "(">>),
                 !.out = Front(@),
                 !.arg_count = Append(@, 1)]
         ELSE [next EXCEPT !.stack = Append(@, <<"OP", "(">>)]
    ELSE IF txt = ","
    THEN LET p == PopToParen(ps.out, ps.stack) IN
         [next EXCEPT
            !.out = p.out, !.stack = p.stack,
            !.arg_count = IF @ # <<>>
                          THEN [@ EXCEPT ![Len(@)] = @ + 1] ELSE @]
    ELSE IF txt = ")"
    THEN LET p == PopToParen(ps.out, ps.stack)
             stack == IF p.stack # <<>> THEN Front(p.stack) ELSE p.stack
         IN  IF stack # <<>> /\ Last(stack)[1] = "FUNC"
             THEN LET func == Last(stack)[2]
                      nargs == IF ps.arg_count # <<>>
                               THEN Last(ps.arg_count) ELSE 1
                  IN  [next EXCEPT
                         !.out = Append(p.out, <<"FUNC", func, nargs>>),
                         !.stack = Front(stack),
                         !.arg_count = IF @ # <<>> THEN Front(@) ELSE @]
             ELSE [next EXCEPT !.out = p.out, !.stack = stack]
    ELSE IF is_unary(ps.prev_token) /\ txt \in {"-", "+"}
    THEN IF txt = "-"
         THEN [next EXCEPT !.stack = Append(@, <<"UNARY", "neg">>)]
         ELSE next
    ELSE LET p == calc_PopOperators(ps.out, ps.stack, txt) IN
         [next EXCEPT !.out = p.out, !.stack = Append(p.stack, <<"OP", txt>>)]

RECURSIVE calc_to_rpn_loop(_, _, _)
calc_to_rpn_loop(ps, toks, i) ==
    IF i > Len(toks) \/ ps.err # None
    THEN ps
    ELSE calc_to_rpn_loop(calc_to_rpn_step(ps, toks[i]), toks, i + 1)

\* the final while loop: everything left on the stack goes to the output
RECURSIVE calc_to_rpn_flush(_, _)
calc_to_rpn_flush(out, stack) ==
    IF stack = <<>>
    THEN Ok(out)
    ELSE calc_to_rpn_flush(Append(out, Last(stack)), Front(stack))

calc_to_rpn(expr0) ==
    LET \* tk is the run of tokenize and ps the state after the for loop
        Parsed(tk, ps) ==
            IF tk.err # None THEN Error("ValueError", tk.err)
            ELSE calc_to_rpn_flush(ps.out, ps.stack)
        Tokens(tk) == Parsed(tk, calc_to_rpn_loop(ParserInit, tk.toks, 1))
        \* expr is expr.strip()
        Stripped(expr) ==
            IF expr = <<>>
            THEN Error("ValueError", <<"Expression is empty">>)
            ELSE Tokens(tokenize(expr))
    IN  Stripped(strip(expr0))

----------------------------------------------------------------------------
(* The numbers of the evaluator.                                           *)
(*                                                                         *)
(* A value is a record [k, n, d].  k = "rat" is the float that equals n/d  *)
(* exactly (d a power of two, |n| and d at most ExactCap, so that every    *)
(* float operation below is exact) and k = "int" the Python int n (d = 1,  *)
(* |n| at most ExactCap); "pi", "e" and "tau" are the constants of math.   *)
(* The other kinds are numbers the model does not track: "bigint" is an    *)
(* int of any size, "float" a float (it may be zero, infinite or nan),     *)
(* "finite" a finite float, "nonzero" a finite float that is not zero and  *)
(* "complex" a complex number.  An operation returns a value, or a record *)
(* whose k is the exception class it raises, or k = "unknown" when the     *)
(* outcome depends on a number the model does not track.                   *)

ExactCap == 16384

Abs(i) == IF i < 0 THEN -i ELSE i

RECURSIVE GCD(_, _)
GCD(a, b) == IF b = 0 THEN a ELSE GCD(b, a % b)

RECURSIVE IsPow2(_)
IsPow2(d) == d = 1 \/ (d > 1 /\ d % 2 = 0 /\ IsPow2(d \div 2))

Special(k) == [k |-> k, n |-> 0, d |-> 1]
Float == Special("float")
NonZero == Special("nonzero")
BigInt == Special("bigint")
Complex == Special("complex")
Unknown == Special("unknown")
Nothing == Special("nothing")

Constants == {"pi", "e", "tau"}

\* the float n/d (d > 0): tracked when it is exact and small
Rat(n, d) ==
    LET g == GCD(Abs(n), d)
        nn == n \div g
        dd == d \div g
    IN  IF Abs(nn) <= ExactCap /\ dd <= ExactCap /\ IsPow2(dd)
        THEN [k |-> "rat", n |-> nn, d |-> dd]
        ELSE Float

\* the float n.0
Whole(n) == Rat(n, 1)

\* the int n: tracked when it is small
int(n) == IF Abs(n) <= ExactCap THEN [k |-> "int", n |-> n, d |-> 1]
          ELSE BigInt

IsRat(v) == v.k = "rat"
IsInt(v) == v.k \in {"int", "bigint"}
Tracked(v) == v.k \in {"rat", "int"}
IsZero(v) == Tracked(v) /\ v.n = 0

\* the float a real operand is converted to when the other operand is a
\* float: a tracked int is small enough to convert exactly
AsFloat(v) ==
    IF v.k = "int" THEN [k |-> "rat", n |-> v.n, d |-> 1]
    ELSE IF v.k \in {"finite", "nonzero"} THEN Float
    ELSE v

\* a tracked number or a constant of math, scaled so that the order of the
\* integers is the order of the numbers: a tracked number is a multiple of
\* 1/16384, and pi, e and tau lie strictly between two of them
Scaled(v) ==
    CASE v.k = "pi" -> 2 * 51471 + 1
      [] v.k = "e" -> 2 * 44536 + 1
      [] v.k = "tau" -> 2 * 102943 + 1
      [] OTHER -> 2 * v.n * (16384 \div v.d)

Comparable(v) == Tracked(v) \/ v.k \in Constants
Equal(a, b) == Scaled(a) = Scaled(b)

\* float(txt) of a NUMBER token DIGITS(.DIGITS)?: the digits before and
\* after the point are accumulated while the number stays small
RECURSIVE ParseNumber(_, _, _, _, _)
ParseNumber(txt, i, n, d, seen_point) ==
    IF i > Len(txt) THEN Rat(n, d)
    ELSE IF txt[i] = "." THEN ParseNumber(txt, i + 1, n, d, TRUE)
    ELSE LET digit == DigitValue[txt[i]]
             n2 == n * 10 + digit
             d2 == IF seen_point THEN d * 10 ELSE d
         IN  IF n2 > 100 * ExactCap \/ d2 > 100 * ExactCap
             THEN Float
             ELSE ParseNumber(txt, i + 1, n2, d2, seen_point)

float(txt) == ParseNumber(txt, 1, 0, 1, FALSE)

\* a + b, a - b, a * b.  Two ints give the exact int.  An int is converted
\* to float for a float or complex operand, which raises OverflowError for
\* an int beyond the float range; floats and complex numbers never raise
\* here.  The product of a constant of math and a tracked number that is
\* not zero, or another constant, is finite and not zero.
Arith(op, a, b) ==
    IF a.k = "int" /\ b.k = "int"
    THEN CASE op = "+" -> int(a.n + b.n)
           [] op = "-" -> int(a.n - b.n)
           [] op = "*" -> int(a.n * b.n)
    ELSE IF IsInt(a) /\ IsInt(b) THEN BigInt
    ELSE IF a.k = "bigint" \/ b.k = "bigint" THEN Unknown
    ELSE IF Tracked(a) /\ Tracked(b)
    THEN CASE op = "+" -> Rat(a.n * b.d + b.n * a.d, a.d * b.d)
           [] op = "-" -> Rat(a.n * b.d - b.n * a.d, a.d * b.d)
           [] op = "*" -> Rat(a.n * b.n, a.d * b.d)
    ELSE IF a.k = "complex" \/ b.k = "complex" THEN Complex
    ELSE IF /\ op = "*"
            /\ Comparable(a) /\ ~IsZero(a)
            /\ Comparable(b) /\ ~IsZero(b)
    THEN NonZero
    ELSE Float

\* the quotient a / b of two tracked numbers, b not zero: a float
Quotient(a, b) ==
    IF b.n > 0 THEN Rat(a.n * b.d, a.d * b.n)
               ELSE Rat(-(a.n * b.d), a.d * (-b.n))

\* A variant of the division below that raises on a zero divisor, as the
\* bare a / b does; the property C7 distinguishes the two.
Divide_Raising(a, b) ==
    IF Tracked(b)
    THEN IF b.n = 0 THEN Special("ZeroDivisionError")
         ELSE IF a.k = "bigint" THEN Unknown
         ELSE IF Tracked(a) THEN Quotient(a, b)
         ELSE IF a.k = "complex" THEN Complex
         ELSE IF a.k \in Constants THEN NonZero
         ELSE Float
    ELSE IF b.k \in Constants \cup {"nonzero"}
    THEN IF a.k = "bigint" THEN Unknown
         ELSE IF a.k = "complex" THEN Complex
         ELSE IF b.k \in Constants /\ Comparable(a) /\ ~IsZero(a)
         THEN NonZero
         ELSE Float
    ELSE Unknown

\* a / b if b != 0 else 0.  The 0 is an int.  The division is the true
\* division, a float also for two ints; an int beyond the float range
\* raises OverflowError in it.  A divisor the model does not track may be
\* zero.  The quotient of a constant of math and a tracked number that is
\* not zero is finite and not zero.
Divide(a, b) ==
    IF Tracked(b)
    THEN IF b.n = 0 THEN int(0)
         ELSE IF a.k = "bigint" THEN Unknown
         ELSE IF Tracked(a) THEN Quotient(a, b)
         ELSE IF a.k = "complex" THEN Complex
         ELSE IF a.k \in Constants THEN NonZero
         ELSE Float
    ELSE IF b.k \in Constants \cup {"nonzero"}
    THEN IF a.k = "bigint" THEN Unknown
         ELSE IF a.k = "complex" THEN Complex
         ELSE IF b.k \in Constants /\ Comparable(a) /\ ~IsZero(a)
         THEN NonZero
         ELSE Float
    ELSE Unknown

\* -a
Negate(a) ==
    CASE a.k = "int" -> int(-a.n)
      [] a.k = "rat" -> Rat(-a.n, a.d)
      [] a.k \in Constants \cup {"nonzero"} -> NonZero
      [] OTHER -> a

\* the largest k with 2^k <= n \div d, for n >= d > 0
RECURSIVE Log2Floor(_, _)
Log2Floor(n, d) == IF n \div d < 2 THEN 0 ELSE 1 + Log2Floor(n \div 2, d)

\* base^exp for a tracked base and an integer exp >= 0, multiplied out
\* while it stays tracked
RECURSIVE PowLoop(_, _, _)
PowLoop(base, exp, acc) ==
    IF exp = 0 \/ ~Tracked(acc) THEN acc
    ELSE PowLoop(base, exp - 1, Arith("*", acc, base))

PowNat(base, exp, acc) ==
    IF exp = 0 THEN acc
    ELSE IF base.n = 0 THEN Arith("*", acc, base)
    ELSE IF Abs(base.n) = 1 /\ base.d = 1
    THEN (IF base.n = 1 \/ exp % 2 = 0 THEN acc ELSE Arith("*", acc, base))
    ELSE PowLoop(base, exp, acc)

\* |n/d|^exp for exp >= 0 when it is too large or too small to track: a
\* float overflows from 2^1024 on
PowRange(n, d, exp) ==
    IF n <= d THEN Float
    ELSE LET k == Log2Floor(n, d) IN
         IF k * exp >= 1024 THEN Special("OverflowError")
         ELSE IF (k + 1) * exp <= 1023 THEN Float
         ELSE Unknown

\* a ** b for floats a and b, tracked or constants of math
FloatPower(a, b) ==
    IF IsRat(a) /\ IsRat(b)
    THEN IF b.d = 1
         THEN IF b.n >= 0
              THEN LET Positive(p) ==
                           IF IsRat(p) THEN p
                           ELSE PowRange(Abs(a.n), a.d, b.n)
                   IN  Positive(PowNat(a, b.n, Whole(1)))
              ELSE IF a.n = 0 THEN Special("ZeroDivisionError")
              ELSE LET Negative(p) ==
                           IF IsRat(p) THEN Quotient(Whole(1), p)
                           ELSE PowRange(a.d, Abs(a.n), -b.n)
                   IN  Negative(PowNat(a, -b.n, Whole(1)))
         ELSE IF a.n = 0
         THEN IF b.n > 0 THEN Whole(0) ELSE Special("ZeroDivisionError")
         ELSE IF Abs(b.n) >= 64 * b.d THEN Unknown
         ELSE IF a.n < 0 THEN Complex
         ELSE Float
    ELSE IF IsRat(a) /\ b.k \in Constants
    THEN IF a.n < 0 THEN Complex
         ELSE IF a.n = 0 THEN Whole(0)
         ELSE Float
    ELSE IF a.k \in Constants /\ IsRat(b)
    THEN IF b.n = 0 THEN Whole(1)
         ELSE IF Abs(b.n) <= 341 * b.d THEN Float
         ELSE Unknown
    ELSE IF a.k \in Constants /\ b.k \in Constants THEN Float
    ELSE Unknown

\* a ** b.  Two ints with b >= 0 give the exact int, which has no largest
\* value; with b < 0 they are converted to float.  A negative float to a
\* power that is not an integer is a complex number (OverflowError when it
\* is out of range).
Power(a, b) ==
    IF a.k = "int" /\ b.k = "int"
    THEN IF b.n >= 0 THEN PowNat(a, b.n, int(1))
         ELSE IF a.n = 0 THEN Special("ZeroDivisionError")
         ELSE FloatPower(AsFloat(a), AsFloat(b))
    ELSE IF a.k = "bigint" /\ b.k = "int" /\ b.n \in {0, 1}
    THEN (IF b.n = 0 THEN int(1) ELSE BigInt)
    ELSE IF a.k = "bigint" \/ b.k = "bigint" THEN Unknown
    ELSE FloatPower(AsFloat(a), AsFloat(b))

\* the floor of the quotient a / b of two tracked numbers, b not zero
FloorDiv(a, b) ==
    IF b.n > 0 THEN (a.n * b.d) \div (a.d * b.n)
               ELSE (-(a.n * b.d)) \div (a.d * (-b.n))

\* a % b: the result has the sign of b; two ints give an int
Modulo(a, b) ==
    IF a.k = "complex" \/ b.k = "complex" THEN Special("TypeError")
    ELSE IF IsInt(a) /\ b.k = "int"
    THEN IF b.n = 0 THEN Special("ZeroDivisionError")
         ELSE IF a.k = "int" THEN int(a.n - b.n * FloorDiv(a, b))
         ELSE BigInt
    ELSE IF a.k = "bigint" \/ b.k = "bigint" THEN Unknown
    ELSE IF Tracked(b)
    THEN IF b.n = 0 THEN Special("ZeroDivisionError")
         ELSE IF Tracked(a)
         THEN Arith("-", AsFloat(a),
                    Arith("*", AsFloat(b), Whole(FloorDiv(a, b))))
         ELSE Float
    ELSE IF b.k \in Constants \cup {"nonzero"} THEN Float
    ELSE Unknown

\* math.log(a, b): the logarithm of a, then the logarithm of b, then the
\* division; each logarithm converts its argument first (TypeError for a
\* complex number) and raises ValueError for a number that is not
\* positive
Log(a, b) ==
    IF a.k = "complex" THEN Special("TypeError")
    ELSE IF ~Comparable(a) THEN Unknown
    ELSE IF Tracked(a) /\ a.n <= 0 THEN Special("ValueError")
    ELSE IF b.k = "complex" THEN Special("TypeError")
    ELSE IF ~Comparable(b) THEN Unknown
    ELSE IF Tracked(b) /\ b.n <= 0 THEN Special("ValueError")
    ELSE IF Equal(b, Whole(1)) THEN Special("ZeroDivisionError")
    ELSE IF Equal(a, Whole(1)) THEN Whole(0)
    ELSE IF Equal(a, b) THEN Whole(1)
    ELSE IF Tracked(a) /\ Equal(b, Whole(2)) /\ a.d = 1 /\ IsPow2(a.n)
    THEN Whole(Log2Floor(a.n, 1))
    ELSE IF Tracked(a) /\ Equal(b, Whole(2)) /\ a.n = 1
    THEN Whole(-Log2Floor(a.d, 1))
    ELSE Float

\* min(a, b) and max(a, b): b replaces a when it is strictly smaller
\* (larger), and the result is the operand itself, an int for an int
MinMax(fname, a, b) ==
    IF a.k = "complex" \/ b.k = "complex" THEN Special("TypeError")
    ELSE IF Comparable(a) /\ Comparable(b)
    THEN IF fname = "min" THEN (IF Scaled(b) < Scaled(a) THEN b ELSE a)
                          ELSE (IF Scaled(a) < Scaled(b) THEN b ELSE a)
    ELSE IF IsInt(a) /\ IsInt(b) THEN BigInt
    ELSE IF IsInt(a) \/ IsInt(b) THEN Unknown
    ELSE Float

RECURSIVE ISqrt(_, _)
ISqrt(n, r) == IF r * r >= n THEN r ELSE ISqrt(n, r + 1)

\* the nargs == 1 branch: the functions of one argument, and nothing for
\* any other name.  The functions of math convert an int to
\* float (OverflowError beyond the float range); abs, math.floor and
\* math.ceil of an int are that int, and math.floor and math.ceil of a
\* float are ints.
EvalFunc1(fname, arg) ==
    LET Floor == arg.n \div arg.d
        Ceil == -((-arg.n) \div arg.d)
    IN
    IF fname \notin {"sin", "cos", "tan", "asin", "acos", "atan", "sqrt",
                     "abs", "exp", "ln", "floor", "ceil", "frac"}
    THEN Nothing
    ELSE IF arg.k = "complex"
    THEN IF fname = "abs" THEN Unknown ELSE Special("TypeError")
    ELSE IF arg.k = "bigint"
    THEN CASE fname \in {"abs", "floor", "ceil"} -> BigInt
           [] fname = "frac" -> int(0)
           [] OTHER -> Unknown
    ELSE IF arg.k \in {"float", "nonzero"}
    THEN CASE fname = "abs" -> arg
           [] fname = "atan" -> Float
           [] OTHER -> Unknown
    ELSE IF arg.k = "finite"
    THEN CASE fname \in {"sin", "cos", "tan", "atan", "abs"} -> arg
           [] OTHER -> Unknown
    ELSE IF arg.k \in Constants
    THEN CASE fname \in {"asin", "acos"} -> Special("ValueError")
           [] fname = "abs" -> arg
           [] fname = "floor" ->
                int(CASE arg.k = "pi" -> 3 [] arg.k = "e" -> 2 [] arg.k = "tau" -> 6)
           [] fname = "ceil" ->
                int(CASE arg.k = "pi" -> 4 [] arg.k = "e" -> 3 [] arg.k = "tau" -> 7)
           [] fname = "ln" /\ arg.k = "e" -> Whole(1)
           [] OTHER -> Float
    ELSE CASE fname \in {"sin", "tan", "asin", "atan"} /\ arg.n = 0 -> Whole(0)
           [] fname = "cos" /\ arg.n = 0 -> Whole(1)
           [] fname \in {"asin", "acos"} /\ Abs(arg.n) > arg.d ->
                Special("ValueError")
           [] fname = "acos" /\ Equal(arg, Whole(1)) -> Whole(0)
           [] fname = "sqrt" ->
                IF arg.n < 0 THEN Special("ValueError")
                ELSE LET rn == ISqrt(arg.n, 0)
                         rd == ISqrt(arg.d, 0)
                     IN  IF rn * rn = arg.n /\ rd * rd = arg.d
                         THEN Rat(rn, rd) ELSE Float
           [] fname = "abs" ->
                IF arg.k = "int" THEN int(Abs(arg.n))
                ELSE Rat(Abs(arg.n), arg.d)
           [] fname = "exp" ->
                IF arg.n = 0 THEN Whole(1)
                ELSE IF arg.n >= 710 * arg.d THEN Special("OverflowError")
                ELSE IF arg.n > 709 * arg.d THEN Unknown
                ELSE IF arg.n <= -746 * arg.d THEN Whole(0)
                ELSE Float
           [] fname = "ln" ->
                IF arg.n <= 0 THEN Special("ValueError")
                ELSE IF Equal(arg, Whole(1)) THEN Whole(0)
                ELSE Float
           [] fname = "floor" -> int(Floor)
           [] fname = "ceil" -> int(Ceil)
           [] fname = "frac" -> Arith("-", arg, int(Floor))
           [] OTHER -> Float

----------------------------------------------------------------------------
(* eval_rpn *)

\* the names the evaluator and the compiler compare a lower-cased
\* identifier with
Names ==
    (<<"s", "i", "n">> :> "sin") @@ (<<"c", "o", "s">> :> "cos") @@
    (<<"t", "a", "n">> :> "tan") @@ (<<"a", "s", "i", "n">> :> "asin") @@
    (<<"a", "c", "o", "s">> :> "acos") @@ (<<"a", "t", "a", "n">> :> "atan") @@
    (<<"s", "q", "r", "t">> :> "sqrt") @@ (<<"a", "b", "s">> :> "abs") @@
    (<<"e", "x", "p">> :> "exp") @@ (<<"l", "n">> :> "ln") @@
    (<<"f", "l", "o", "o", "r">> :> "floor") @@
    (<<"c", "e", "i", "l">> :> "ceil") @@ (<<"f", "r", "a", "c">> :> "frac") @@
    (<<"p", "o", "w">> :> "pow") @@ (<<"l", "o", "g">> :> "log") @@
    (<<"m", "i", "n">> :> "min") @@ (<<"m", "a", "x">> :> "max") @@
    (<<"m", "o", "d">> :> "mod") @@
    (<<"p", "i">> :> "pi") @@ (<<"e">> :> "e") @@ (<<"t", "a", "u">> :> "tau") @@
    (<<"t">> :> "t") @@ (<<"u">> :> "u") @@ (<<"v">> :> "v") @@ (<<"s">> :> "s")

\* the string a name stands for, "" for any other name
NameOf(txt) == IF txt \in DOMAIN Names THEN Names[txt] ELSE ""

_FUNC_1 ==
    {"sin", "cos", "tan", "asin", "acos", "atan", "sqrt", "abs", "exp",
     "ln", "floor", "ceil", "frac"}

_FUNC_2 == {"pow", "log", "min", "max", "mod"}

\* the result of eval_rpn: status "ok" with the value returned, or the
\* exception class raised, or "unknown"; stack is the value stack when the
\* walk ended
EvalResult(status, msg, value, stack) ==
    [status |-> status, msg |-> msg, value |-> value, stack |-> stack]

\* A variant of the operator branch below that computes b OP a; the
\* property C8 distinguishes the two.
EvalOp_Swapped(op, a, b) ==
    CASE op \in {"+", "-", "*"} -> Arith(op, b, a)
      [] op = "/" -> Divide(b, a)
      [] op = "^" -> Power(b, a)
      [] OTHER -> Nothing

\* the operator branch: b and a are popped, the result pushed
EvalOp(op, a, b) ==
    CASE op \in {"+", "-", "*"} -> Arith(op, a, b)
      [] op = "/" -> Divide(a, b)
      [] op = "^" -> Power(a, b)
      [] OTHER -> Nothing

\* A variant of the branch below that raises ValueError for a name it
\* does not know; the property C24 distinguishes the two.
EvalFunc2_Raising(fname, a, b) ==
    CASE fname = "pow" -> Power(a, b)
      [] fname = "log" -> Log(a, b)
      [] fname \in {"min", "max"} -> MinMax(fname, a, b)
      [] fname = "mod" -> Modulo(a, b)
      [] OTHER -> Special("ValueError")

\* the nargs == 2 branch
EvalFunc2(fname, a, b) ==
    CASE fname = "pow" -> Power(a, b)
      [] fname = "log" -> Log(a, b)
      [] fname \in {"min", "max"} -> MinMax(fname, a, b)
      [] fname = "mod" -> Modulo(a, b)
      [] OTHER -> Nothing

\* A variant of the lookup below that tries the constants before the
\* variables; the property C6 distinguishes the two.
lookup_ConstantsFirst(var_name, variables) ==
    IF NameOf(var_name) = "pi" THEN Special("pi")
    ELSE IF NameOf(var_name) = "e" THEN Special("e")
    ELSE IF NameOf(var_name) = "tau" THEN Special("tau")
    ELSE IF var_name \in DOMAIN variables THEN variables[var_name]
    ELSE Nothing

\* the identifier branch: the lower-cased name is looked up in the
\* variables first, then among pi, e and tau; Nothing stands for the
\* ValueError("Unknown variable: ...") raised for any other name
lookup(var_name, variables) ==
    IF var_name \in DOMAIN variables THEN variables[var_name]
    ELSE IF NameOf(var_name) = "pi" THEN Special("pi")
    ELSE IF NameOf(var_name) = "e" THEN Special("e")
    ELSE IF NameOf(var_name) = "tau" THEN Special("tau")
    ELSE Nothing

RECURSIVE eval_loop(_, _, _, _)
eval_loop(rpn, i, stack, variables) ==
    IF i > Len(rpn)
    THEN EvalResult("ok", None,
                    IF stack # <<>> THEN stack[1] ELSE int(0), stack)
    ELSE
    LET tok == rpn[i]
        n == Len(stack)
        \* continue with the stack rest and the result r of the branch: r
        \* is pushed unless the branch pushes nothing
        Then(rest, r) ==
            IF r.k = "nothing" THEN eval_loop(rpn, i + 1, rest, variables)
            ELSE IF r.k \in {"rat", "int", "pi", "e", "tau", "bigint",
                              "float", "finite", "nonzero", "complex"}
            THEN eval_loop(rpn, i + 1, Append(rest, r), variables)
            ELSE EvalResult(r.k, None, Nothing, rest)
        IndexError == EvalResult("IndexError", None, Nothing, <<>>)
    IN
    IF tok[1] = "NUMBER"
    THEN eval_loop(rpn, i + 1, Append(stack, float(tok[2])), variables)
    ELSE IF tok[1] = "ID"
    THEN LET Bound(var_name, v) ==
                 IF v # Nothing
                 THEN eval_loop(rpn, i + 1, Append(stack, v), variables)
                 ELSE EvalResult("ValueError",
                                 <<"Unknown variable", var_name>>,
                                 Nothing, stack)
             Named(var_name) == Bound(var_name, lookup(var_name, variables))
         IN  Named(lower(tok[2]))
    ELSE IF tok[1] = "OP"
    THEN IF n < 2 THEN IndexError
         ELSE Then(SubSeq(stack, 1, n - 2),
                   EvalOp(tok[2], stack[n - 1], stack[n]))
    ELSE IF tok[1] = "UNARY"
    THEN IF n < 1 THEN IndexError
         ELSE Then(Front(stack), Negate(stack[n]))
    ELSE IF tok[1] = "FUNC"
    THEN LET nargs == IF Len(tok) > 2 THEN tok[3] ELSE 1
             Called(fname) ==
                 IF nargs = 1
                 THEN IF n < 1 THEN IndexError
                      ELSE Then(Front(stack), EvalFunc1(fname, stack[n]))
                 ELSE IF nargs = 2
                 THEN IF n < 2 THEN IndexError
                      ELSE Then(SubSeq(stack, 1, n - 2),
                                EvalFunc2(fname, stack[n - 1], stack[n]))
                 ELSE eval_loop(rpn, i + 1, stack, variables)
         IN  Called(NameOf(lower(tok[2])))
    ELSE eval_loop(rpn, i + 1, stack, variables)

eval_rpn(rpn, variables) == eval_loop(rpn, 1, <<>>, variables)

----------------------------------------------------------------------------
(* The node tree and build_expr                                            *)
(*                                                                         *)
(* A node tree is [nodes, links]: nodes is the sequence of nodes in the    *)
(* order nodes.new created them and links the sequence of links in the     *)
(* order links.new created them.  A socket is [node, name]: the output of  *)
(* the node at index node (name "out"), or for node = 0 the socket the     *)
(* caller passes for the variable name.                                    *)

EmptyTree == [nodes |-> <<>>, links |-> <<>>]

OutputOf(i) == [node |-> i, name |-> "out"]
NoSocket == [node |-> -1, name |-> "none"]
source_socket(name) == [node |-> 0, name |-> name]

\* A variant of make_value that returns the socket of a Value node of the
\* tree that already holds val, when there is one; the property C13
\* distinguishes the two.
make_value_Reusing(tree, val, loc) ==
    LET same == {i \in DOMAIN tree.nodes :
                    /\ tree.nodes[i].type = "ShaderNodeValue"
                    /\ tree.nodes[i].value = val}
        n == [type |-> "ShaderNodeValue", operation |-> "",
              value |-> val, default1 |-> Nothing, location |-> loc]
    IN  IF same # {}
        THEN [tree |-> tree, sock |-> OutputOf(CHOOSE i \in same : TRUE)]
        ELSE [tree |-> [tree EXCEPT !.nodes = Append(@, n)],
              sock |-> OutputOf(Len(tree.nodes) + 1)]

\* make_value: a Value node holding float(val); returns the tree and the
\* output socket of the node
make_value(tree, val, loc) ==
    LET n == [type |-> "ShaderNodeValue", operation |-> "",
              value |-> val, default1 |-> Nothing, location |-> loc]
    IN  [tree |-> [tree EXCEPT !.nodes = Append(@, n)],
         sock |-> OutputOf(Len(tree.nodes) + 1)]

\* A variant of the links below with a on input 1 and b on input 0; the
\* property C10 distinguishes the two.
MathLinks_Swapped(links, i, a, b) ==
    LET la == IF a # NoSocket
              THEN Append(links, [from |-> a, to |-> i, input |-> 1])
              ELSE links
    IN  IF b # NoSocket
        THEN Append(la, [from |-> b, to |-> i, input |-> 0])
        ELSE la

\* A variant of the links below that go from the new node to the nodes of
\* its operands; the property C21 distinguishes the two.
MathLinks_Backward(links, i, a, b) ==
    LET la == IF a # NoSocket
              THEN Append(links, [from |-> OutputOf(i), to |-> a.node,
                                  input |-> 0])
              ELSE links
    IN  IF b # NoSocket
        THEN Append(la, [from |-> OutputOf(i), to |-> b.node, input |-> 1])
        ELSE la

\* links.new(a, n.inputs[0]) if a is not None, then the same for b and
\* inputs[1]
MathLinks(links, i, a, b) ==
    LET la == IF a # NoSocket
              THEN Append(links, [from |-> a, to |-> i, input |-> 0])
              ELSE links
    IN  IF b # NoSocket
        THEN Append(la, [from |-> b, to |-> i, input |-> 1])
        ELSE la

\* make_math: a Math node of operation op with a linked to input 0 and b to
\* input 1; default1 is the value build_expr then stores in inputs[1]
make_math(tree, op, a, b, default1, loc) ==
    LET i == Len(tree.nodes) + 1
        n == [type |-> "ShaderNodeMath", operation |-> op,
              value |-> Nothing, default1 |-> default1, location |-> loc]
    IN  [tree |-> [nodes |-> Append(tree.nodes, n),
                   links |-> MathLinks(tree.links, i, a, b)],
         sock |-> OutputOf(i)]

dx == 220
dy == -140

OpNames ==
    ("+" :> "ADD") @@ ("-" :> "SUBTRACT") @@ ("*" :> "MULTIPLY") @@
    ("/" :> "DIVIDE") @@ ("^" :> "POWER")

opmap ==
    [sin |-> "SINE", cos |-> "COSINE", tan |-> "TANGENT", asin |-> "ARCSINE",
     acos |-> "ARCCOSINE", atan |-> "ARCTANGENT", sqrt |-> "SQRT",
     abs |-> "ABSOLUTE", exp |-> "EXPONENT", ln |-> "LOGARITHM",
     floor |-> "FLOOR", ceil |-> "CEIL", frac |-> "FRACTION"]

Func2Names ==
    [pow |-> "POWER", log |-> "LOGARITHM", min |-> "MINIMUM",
     max |-> "MAXIMUM", mod |-> "MODULO"]

\* the result of build_expr: status "ok" with the socket and rightmost x
\* returned, or the exception class raised; tree is the node tree the call
\* leaves behind and rpn what its to_rpn returned
BuildResult(status, msg, rpn, sock, x, tree) ==
    [status |-> status, msg |-> msg, rpn |-> rpn, sock |-> sock, x |-> x,
     tree |-> tree]

\* A variant of the operand branches below that creates a Value node for
\* a bound variable too; the property C9 distinguishes the two.
operand_ValueNode(tree, tok, sources, loc) ==
    IF tok[1] = "NUMBER" THEN make_value(tree, float(tok[2]), loc)
    ELSE LET Named(name) ==
                 IF name \in sources \cup {"pi", "e", "tau"}
                 THEN make_value(tree, Special(name), loc)
                 ELSE [tree |-> tree, sock |-> NoSocket]
         IN  Named(NameOf(lower(tok[2])))

\* the NUMBER and ID branches: the tree and the socket pushed for an
\* operand token; sock = NoSocket stands for the ValueError("Unknown
\* identifier ...") raised
operand(tree, tok, sources, loc) ==
    IF tok[1] = "NUMBER" THEN make_value(tree, float(tok[2]), loc)
    ELSE LET Named(name) ==
                 IF name \in sources
                 THEN [tree |-> tree, sock |-> source_socket(name)]
                 ELSE IF name \in {"pi", "e", "tau"}
                 THEN make_value(tree, Special(name), loc)
                 ELSE [tree |-> tree, sock |-> NoSocket]
         IN  Named(NameOf(lower(tok[2])))

RECURSIVE build_loop(_, _, _, _)
build_loop(rpn, i, bs, sources) ==
    LET n == Len(bs.stack)
        loc == <<bs.x, bs.y>>
        Fail(cls, msg) == BuildResult(cls, msg, rpn, NoSocket, bs.x, bs.tree)
        IndexError == Fail("IndexError", None)
        \* push_socket(sock) followed by x += dx, after the call made that
        \* left the tree m.tree
        Continue(rest, m) ==
            build_loop(rpn, i + 1,
                       [stack |-> Append(rest, <<m.sock, bs.x, bs.y>>),
                        x |-> bs.x + dx, y |-> bs.y + dy, tree |-> m.tree],
                       sources)
    IN
    IF i > Len(rpn)
    THEN IF n # 1
         THEN Fail("ValueError",
                   <<"Malformed expression (stack not singular at end)">>)
         ELSE BuildResult("ok", None, rpn, bs.stack[1][1], bs.x, bs.tree)
    ELSE
    LET tok == rpn[i] IN
    IF tok[1] \in {"NUMBER", "ID"}
    THEN LET Made(m) ==
                 IF m.sock # NoSocket
                 THEN Continue(bs.stack, m)
                 ELSE Fail("ValueError", <<"Unknown identifier", tok[2]>>)
         IN  Made(operand(bs.tree, tok, sources, loc))
    ELSE IF tok[1] = "OP"
    THEN LET op == tok[2] IN
         IF op \in {"+", "-", "*", "/", "^"}
         THEN IF n < 2 THEN IndexError
              ELSE Continue(SubSeq(bs.stack, 1, n - 2),
                            make_math(bs.tree, OpNames[op],
                                      bs.stack[n - 1][1], bs.stack[n][1],
                                      Nothing, loc))
         ELSE Fail("ValueError", <<"Unsupported operator", op>>)
    ELSE IF tok[1] = "UNARY"
    THEN LET op == tok[2] IN
         IF op = "neg"
         THEN IF n < 1 THEN IndexError
              ELSE Continue(Front(bs.stack),
                            make_math(bs.tree, "MULTIPLY", bs.stack[n][1],
                                      NoSocket, Whole(-1), loc))
         ELSE Fail("ValueError", <<"Unsupported unary operator", op>>)
    ELSE IF tok[1] = "FUNC"
    THEN LET nargs == tok[3]
             \* name is tok[1].lower()
             Called(name, fname) ==
                 IF fname \in _FUNC_1 /\ nargs = 1
                 THEN IF n < 1 THEN IndexError
                      ELSE Continue(Front(bs.stack),
                               make_math(bs.tree, opmap[fname],
                                         bs.stack[n][1], NoSocket,
                                         IF fname = "ln" THEN Special("e")
                                                         ELSE Nothing,
                                         loc))
                 ELSE IF fname \in _FUNC_2 /\ nargs = 2
                 THEN IF n < 2 THEN IndexError
                      ELSE Continue(SubSeq(bs.stack, 1, n - 2),
                               make_math(bs.tree, Func2Names[fname],
                                         bs.stack[n - 1][1], bs.stack[n][1],
                                         Nothing, loc))
                 ELSE Fail("ValueError",
                           <<"Function expects", name,
                             IF fname \in _FUNC_1 THEN 1 ELSE 2>>)
             Lowered(name) == Called(name, NameOf(name))
         IN  Lowered(lower(tok[2]))
    ELSE Fail("ValueError", <<"Token not handled">>)

\* build_expr(nodes, base_x, base_y, source_socket_..., expr_string); the
\* add-ons differ in sources, the names bound to the sockets they pass:
\* {"t"} for the curve, {"u", "v"} for the surface, {"s"} for the matrix.
\* parsed is the status of the to_rpn call.
build_expr(tree, base_x, base_y, sources, expr_string) ==
    LET \* p is the outcome of to_rpn(expr_string)
        Built(p) ==
            [parsed |-> p.status] @@
            IF p.status # "ok"
            THEN BuildResult(p.status, p.msg, <<>>, NoSocket, base_x, tree)
            ELSE build_loop(p.rpn, 1,
                            [stack |-> <<>>, x |-> base_x, y |-> base_y,
                             tree |-> tree],
                            sources)
    IN  Built(to_rpn(expr_string))

----------------------------------------------------------------------------
(* The expressions the model is run on.  An expression is typed into the  *)
(* text field of a node of one of the add-ons; lexemes are concatenated   *)
(* without separators, so that the tokenizer decides where tokens end.    *)

MaxLexemes == 4
MaxOps == 2
MaxLexChars == 3
MaxIdents == 2
MaxBuilds == 1

RECURSIVE Flatten(_)
Flatten(w) == IF w = <<>> THEN <<>> ELSE Head(w) \o Flatten(Tail(w))

\* every concatenation of 1..n lexemes of the alphabet
Words(alphabet, n) ==
    UNION {{Flatten(w) : w \in [1..k -> alphabet]} : k \in 1..n}

\* the alphabets of the words typed into an expression field: lexemes,
\* characters and identifiers, and the binary operators, the operands
\* and the function names of the generated expressions
Alphabets ==
    [free |-> {<<"2">>, <<"t">>, <<"-">>, <<"^">>, <<"(">>, <<")">>},
     chars |-> {<<"1">>, <<".">>, <<"_">>, <<" ">>, <<"$">>, <<"\n">>,
                <<",">>, <<"+">>},
     idents |-> {<<"t">>, <<"u">>, <<"v">>, <<"s">>, <<"p", "i">>, <<"e">>,
                 <<"t", "a", "u">>, <<"q">>, <<"T">>, <<"P", "I">>, <<"*">>,
                 <<" ">>},
     ops |-> {"+", "-", "*", "/", "^"},
     atoms |-> {<<"0">>, <<"1">>, <<"2">>, <<"8">>, <<"1", "0">>,
                <<"0", ".", "5">>, <<"t">>, <<"p", "i">>, <<"-", "2">>,
                <<"(", "2", "-", "2", ")">>},
     calls |-> {<<"s", "i", "n">>, <<"c", "o", "s">>, <<"s", "q", "r", "t">>,
                <<"l", "n">>, <<"f", "l", "o", "o", "r">>,
                <<"f", "r", "a", "c">>, <<"p", "o", "w">>, <<"l", "o", "g">>,
                <<"m", "i", "n">>, <<"m", "a", "x">>, <<"m", "o", "d">>,
                <<"P", "o", "w">>, <<"f">>}]

\* the expressions of exactly n binary operators over the operands 2 and
\* 3, with and without parentheses around the operands of an operator; the
\* operators are one of each precedence level and associativity, and two
\* of the lowest level
RECURSIVE ArithExprs(_)
ArithOperand(k) ==
    IF k = 0 THEN ArithExprs(0)
    ELSE ArithExprs(k) \cup {<<"(">> \o x \o <<")">> : x \in ArithExprs(k)}

ArithExprs(n) ==
    IF n = 0 THEN {<<"2">>, <<"3">>}
    ELSE UNION {{l \o <<op>> \o r :
                    l \in ArithOperand(i), r \in ArithOperand(n - 1 - i),
                    op \in {"+", "-", "/", "^"}} : i \in 0..(n - 1)}

\* the example expressions of each add-on
Examples ==
  [curve |->
    {<<"1", "+", "2", "*", "3">>, <<"(", "1", "+", "2", ")", "*", "3">>,
     <<"2", "^", "3", "^", "2">>, <<"-", "2", "^", "2">>,
     <<"1", "/", "0">>, <<"p", "o", "w", "(", "2", ",", "1", "0", ")">>,
     <<"l", "o", "g", "(", "8", ",", "2", ")">>,
     <<"s", "i", "n", "(", "t", ")">>, <<"c", "o", "s", "(", "t", ")">>,
     <<>>, <<"(", "1", "+", "2">>, <<"1", "+", "2", ")">>, <<"q">>,
     <<"t", "*", "t">>, <<"1", "+", "1">>,
     <<"s", "i", "n", "(", "1", ",", "2", ")">>,
     <<"1", ",", "2">>, <<"(", "1", ",", "2", ")">>,
     <<"-", "t", "+", "1">>, <<"2", "*", "-", "t">>,
     \* a digit, letters and spaces beyond ASCII: the Arabic-Indic digit
     \* three, a no-break space around and inside an expression, a unit
     \* separator alone, and identifiers ending in a capital e with acute,
     \* a capital I with dot above, a capital sigma and the Kelvin sign
     <<"U+0663">>, <<"1", "U+0663", ".", "5">>, <<"U+0663", "*", "t">>,
     <<"U+00A0", "t", "U+00A0">>, <<"t", "U+00A0", "+", "1">>,
     <<"U+001F">>, <<"t", "U+00C9">>, <<"p", "U+0130">>,
     <<"T", "U+03A3">>, <<"U+212A">>, <<"t", "U+212A">>,
     <<"f", "l", "o", "o", "r", "(", "t", ")", "^", "2">>,
     <<"c", "e", "i", "l", "(", "t", ")", "/", "2">>},
   surface |->
    {<<"u", "*", "u">>, <<"u", "*", "v">>, <<"v", "-", "u">>,
     <<"s", "i", "n", "(", "v", ")", "*", "c", "o", "s", "(", "u", ")">>},
   matrix |->
    {<<"s", "*", "s">>, <<"c", "o", "s", "(", "s", ")">>,
     <<"-", "s", "i", "n", "(", "s", ")">>, <<"1">>, <<"0">>}]

\* the expressions typed into the field of the add-on a
Inputs(a) ==
    Words(Alphabets.idents, MaxIdents) \cup Examples[a] \cup
    IF a = "curve"
    THEN Words(Alphabets.free, MaxLexemes)
         \cup Words(Alphabets.chars, MaxLexChars)
         \cup UNION {ArithExprs(n) : n \in 0..MaxOps}
         \* x OP y over the atoms
         \cup {x \o <<op>> \o y :
                 x \in Alphabets.atoms, y \in Alphabets.atoms,
                 op \in Alphabets.ops}
         \* f(), f(x), f(x,y) and f(x,y,z), and calls with a nested call
         \* or a nested parenthesised group as argument
         \cup {f \o <<"(", ")">> : f \in Alphabets.calls}
         \cup {f \o <<"(">> \o x \o <<")">> :
                  f \in Alphabets.calls, x \in Alphabets.atoms}
         \cup {f \o <<"(">> \o x \o <<",">> \o y \o <<")">> :
                  f \in Alphabets.calls, x \in Alphabets.atoms,
                  y \in Alphabets.atoms}
         \cup {f \o <<"(">> \o x \o <<",">> \o y \o <<",">> \o z \o <<")">> :
                  f \in {<<"s", "i", "n">>, <<"p", "o", "w">>},
                  x \in {<<"2">>, <<"t">>}, y \in {<<"2">>, <<"t">>},
                  z \in {<<"2">>, <<"t">>}}
         \cup
         {<<"p", "o", "w", "(", "(", "1", ",", "2", ")", ")">>,
          <<"p", "o", "w", "(", "(", "1", ")", ",", "2", ")">>,
          <<"p", "o", "w", "(", "1", ",", "(", "2", ",", "3", ")", ")">>,
          <<"p", "o", "w", "(", "m", "i", "n", "(", "1", ",", "2", ")", ",",
            "3", ")">>,
          <<"m", "i", "n", "(", "1", ",", "m", "a", "x", "(", "2", ",", "3",
            ")", ")">>,
          <<"s", "i", "n", "(", "(", "t", ")", ")">>}
    ELSE {}

\* the names build_expr binds to the sockets its caller passes
Sources == [curve |-> {"t"}, surface |-> {"u", "v"}, matrix |-> {"s"}]

\* The dictionaries eval_rpn is given: the operator binds t for the curve
\* expressions and s for the matrix expressions; the dictionaries that also
\* bind the name of a constant reach the lookup order of eval_rpn.
Bindings ==
    [curve |-> {<<"t">> :> Whole(2)},
     surface |-> {(<<"u">> :> Whole(2)) @@ (<<"v">> :> Rat(1, 2)),
                  (<<"u">> :> Whole(2)) @@ (<<"v">> :> Rat(1, 2))
                      @@ (<<"p", "i">> :> Whole(3))},
     matrix |-> {<<"s">> :> Whole(-3),
                 (<<"s">> :> Whole(-3)) @@ (<<"e">> :> Whole(5))
                     @@ (<<"t", "a", "u">> :> Whole(6))}]

----------------------------------------------------------------------------
(* The state machine *)

VARIABLES
    addon,        \* the add-on whose node holds the expression
    expr,         \* the expression text
    tree,         \* the node tree build_expr works on (the nodes and links
                  \* of the node group)
    builds,       \* the calls of build_expr made so far (by the last run of
                  \* an operator), oldest first
    evals,        \* the evaluation made so far (at most one)
    group_nodes,  \* the group nodes of the edit tree with their expression
                  \* properties, inputs and links, oldest first
    group_output, \* whether the edit tree has a Group Output node with an
                  \* input Geometry
    report,       \* what the Build operator reported and returned last
    node_groups,  \* the node groups of bpy.data.node_groups that the
                  \* Parametric Surface add-on or the Calculate Surface
                  \* add-on created, oldest first
    objects,      \* the objects of bpy.data.objects
    meshes        \* the number of meshes of bpy.data.meshes

vars == <<addon, expr, tree, builds, evals, group_nodes, group_output,
          report, node_groups, objects, meshes>>

NoReport == [level |-> "", msg |-> <<>>, result |-> ""]

\* what is recorded of a call of build_expr: its arguments, its result r
\* and the sizes of the tree before and after it
Call(before, base_y, expr_string, r) ==
    [expr_string |-> expr_string, base_y |-> base_y,
     parsed |-> r.parsed, status |-> r.status, msg |-> r.msg,
     rpn |-> r.rpn, sock |-> r.sock, x |-> r.x,
     nodes0 |-> Len(before.nodes), links0 |-> Len(before.links),
     nodes1 |-> Len(r.tree.nodes), links1 |-> Len(r.tree.links)]

Init ==
    /\ addon \in DOMAIN Sources
    /\ expr \in Inputs(addon)
    /\ tree = EmptyTree
    /\ builds = <<>>
    /\ evals = <<>>
    /\ group_nodes = <<>>
    /\ group_output = TRUE
    /\ report = NoReport
    /\ node_groups = <<>>
    /\ objects = {}
    /\ meshes = 0

\* Build of a parametric add-on: build_expr compiles the expression into
\* the node tree.
Build ==
    /\ Len(builds) < MaxBuilds
    /\ \E r \in {build_expr(tree, -280, 240, Sources[addon], expr)} :
          /\ tree' = r.tree
          /\ builds' = Append(builds, Call(tree, 240, expr, r))
    /\ UNCHANGED group_output
    /\ UNCHANGED <<addon, expr, evals, group_nodes, report>>
    /\ UNCHANGED <<node_groups, objects, meshes>>

\* Calculate Surface: to_rpn of calculate_surface_node.py, then eval_rpn
\* of the result with the variables bound
Evaluate ==
    /\ evals = <<>>
    /\ \E variables \in Bindings[addon] :
       \E p \in {calc_to_rpn(expr)} :
       \E r \in {IF p.status = "ok"
                 THEN eval_rpn(p.rpn, variables)
                 ELSE EvalResult(p.status, p.msg, Nothing, <<>>)} :
          evals' = <<[variables |-> variables, parsed |-> p.status,
                      rpn |-> p.rpn, status |-> r.status,
                      msg |-> r.msg, value |-> r.value,
                      stack |-> r.stack]>>
    /\ UNCHANGED group_output
    /\ UNCHANGED <<addon, expr, tree, builds, group_nodes, report>>
    /\ UNCHANGED <<node_groups, objects, meshes>>

Next == Build \/ Evaluate

Spec == Init /\ [][Next]_vars

----------------------------------------------------------------------------
(* The operators of the Parametric Curve add-on.  All group nodes of the  *)
(* add-on use the one node group named GROUP_NAME; tree holds its nodes   *)
(* and links.  The sockets of the group's interface, which                *)
(* build_group_from_expressions ensures and never removes, are not part   *)
(* of tree.  A link to a socket addressed by name carries the name in     *)
(* port, a link to a socket addressed by index carries the index in input.*)

MaxGroupNodes == 2

NewNode(type, operation, default1, loc) ==
    [type |-> type, operation |-> operation, value |-> Nothing,
     default1 |-> default1, location |-> loc]

Output(i, name) == [node |-> i, name |-> name]

\* nodes.new(type) followed by the assignments to the new node
AddNode(t, type, operation, default1, loc) ==
    [t EXCEPT !.nodes = Append(@, NewNode(type, operation, default1, loc))]

\* links.new(from, nodes[to].inputs[input]) with an index or a name
Link(t, from, to, input) ==
    [t EXCEPT !.links = Append(@, [from |-> from, to |-> to,
                                   input |-> input])]

NamedLink(t, from, to, port) ==
    [t EXCEPT !.links = Append(@, [from |-> from, to |-> to,
                                   port |-> port])]

\* the nodes build_group_from_expressions creates before it compiles the
\* expressions, in a group without nodes: n_in (1), n_out (2), n_line (3),
\* n_index (4), n_res_minus (5), n_div (6), n_span (7), n_t_scaled (8) and
\* n_t (9), whose output is the socket passed to build_expr for t
scaffold ==
    [nodes |->
        <<NewNode("NodeGroupInput", "", Nothing, <<-1200, 0>>),
          NewNode("NodeGroupOutput", "", Nothing, <<900, 0>>),
          NewNode("GeometryNodeMeshLine", "OFFSET", Nothing, <<-1000, 200>>),
          NewNode("GeometryNodeInputIndex", "", Nothing, <<-1000, -180>>),
          NewNode("ShaderNodeMath", "SUBTRACT", Whole(1), <<-820, -260>>),
          NewNode("ShaderNodeMath", "DIVIDE", Nothing, <<-640, -260>>),
          NewNode("ShaderNodeMath", "SUBTRACT", Nothing, <<-820, -80>>),
          NewNode("ShaderNodeMath", "MULTIPLY", Nothing, <<-640, -80>>),
          NewNode("ShaderNodeMath", "ADD", Nothing, <<-460, -80>>)>>,
     links |->
        <<[from |-> Output(1, "Resolution"), to |-> 3, port |-> "Count"],
          [from |-> Output(1, "Resolution"), to |-> 5, input |-> 0],
          [from |-> OutputOf(4), to |-> 6, input |-> 0],
          [from |-> OutputOf(5), to |-> 6, input |-> 1],
          [from |-> Output(1, "t Max"), to |-> 7, input |-> 0],
          [from |-> Output(1, "t Min"), to |-> 7, input |-> 1],
          [from |-> OutputOf(6), to |-> 8, input |-> 0],
          [from |-> OutputOf(7), to |-> 8, input |-> 1],
          [from |-> Output(1, "t Min"), to |-> 9, input |-> 0],
          [from |-> OutputOf(8), to |-> 9, input |-> 1]>>]

Max3(a, b, c) ==
    LET ab == IF a >= b THEN a ELSE b IN IF ab >= c THEN ab ELSE c

\* the part of build_group_from_expressions after the three expressions
\* have compiled (calls are their calls): Combine XYZ, Mesh to Points, Set
\* Position and Points to Curves, the last linked to the group output
finish_group(t, calls) ==
    LET right == Max3(calls[1].x, calls[2].x, calls[3].x)
        n_combine == Len(t.nodes) + 1
        n_points == n_combine + 1
        n_setpos == n_combine + 2
        n_curve == n_combine + 3
        t1 == AddNode(t, "ShaderNodeCombineXYZ", "", Nothing,
                      <<right + 60, 60>>)
        t2 == Link(Link(Link(t1, calls[1].sock, n_combine, 0),
                        calls[2].sock, n_combine, 1),
                   calls[3].sock, n_combine, 2)
        t3 == AddNode(t2, "GeometryNodeMeshToPoints", "", Nothing,
                      <<-820, 200>>)
        t4 == NamedLink(t3, Output(3, "Mesh"), n_points, "Mesh")
        t5 == AddNode(t4, "GeometryNodeSetPosition", "", Nothing,
                      <<right + 260, 60>>)
        t6 == NamedLink(NamedLink(t5, Output(n_points, "Points"),
                                  n_setpos, "Geometry"),
                        Output(n_combine, "Vector"), n_setpos, "Position")
        t7 == AddNode(t6, "GeometryNodePointsToCurves", "", Nothing,
                      <<right + 480, 60>>)
        t8 == NamedLink(t7, Output(n_setpos, "Geometry"), n_curve, "Points")
    IN  NamedLink(t8, Output(n_curve, "Curves"), 2, "Geometry")

\* the value of Rest at v, with v computed once
LetIn(v, Rest(_)) == CHOOSE r \in {Rest(x) : x \in {v}} : TRUE

\* the arguments of a call of build_expr other than the tree
Column(base_x, base_y, sources, expr_string) ==
    [base_x |-> base_x, base_y |-> base_y, sources |-> sources,
     expr_string |-> expr_string]

\* the try block of build_group_from_expressions: build_expr compiles the
\* expressions of columns from the k-th on into t, each at its base_x and
\* base_y; the first exception leaves the block.  calls are the calls made.
RECURSIVE build_columns(_, _, _, _)
build_columns(t, columns, k, calls) ==
    IF k > Len(columns)
    THEN [status |-> "ok", msg |-> None, tree |-> t, calls |-> calls]
    ELSE LetIn(build_expr(t, columns[k].base_x, columns[k].base_y,
                         columns[k].sources, columns[k].expr_string),
              LAMBDA b :
                 LET made == Append(calls,
                                    Call(t, columns[k].base_y,
                                         columns[k].expr_string, b))
                 IN  IF b.status # "ok"
                     THEN [status |-> b.status, msg |-> b.msg,
                           tree |-> b.tree, calls |-> made]
                     ELSE build_columns(b.tree, columns, k + 1, made))

\* build_group_from_expressions(x_expr, y_expr, z_expr): the group is
\* emptied (ng.nodes.clear(), or a new group), the scaffold is created,
\* the expressions are compiled in turn and the rest of the group is
\* added; an exception of build_expr leaves the function.  tree is the
\* group left behind and calls the calls of build_expr made.
build_group_from_expressions(x_expr, y_expr, z_expr) ==
    LET columns == <<Column(-280, 240, Sources["curve"], x_expr),
                     Column(-280, 60, Sources["curve"], y_expr),
                     Column(-280, -120, Sources["curve"], z_expr)>>
    IN  LetIn(build_columns(scaffold, columns, 1, <<>>),
             LAMBDA c : IF c.status # "ok" THEN c
                        ELSE [c EXCEPT !.tree = finish_group(c.tree, c.calls)])

\* the expressions of the helix the Add operator builds
DefaultExprs ==
    [x_expr |-> <<"c", "o", "s", "(", "t", ")">>,
     y_expr |-> <<"s", "i", "n", "(", "t", ")">>,
     z_expr |-> <<"t", "/", "(", "2", "*", "p", "i", ")">>]

OpInit ==
    /\ addon = "curve"
    /\ expr = <<>>
    /\ tree = EmptyTree
    /\ builds = <<>>
    /\ evals = <<>>
    /\ group_nodes = <<>>
    /\ group_output \in BOOLEAN
    /\ report = NoReport
    /\ node_groups = <<>>
    /\ objects = {}
    /\ meshes = 0

\* NODE_OT_add_parametric_curve_gn.execute: the group is built from the
\* default expressions and a group node using it is added to the edit
\* tree; the node is linked to the input Geometry of the Group Output of
\* the edit tree when there is one (linked); the input holds one link, so
\* the link of the node that was linked to it is removed.
AddOp ==
    /\ Len(group_nodes) < MaxGroupNodes
    /\ \E has_output \in {group_output} :
       \E g \in {build_group_from_expressions(DefaultExprs.x_expr,
                                                DefaultExprs.y_expr,
                                                DefaultExprs.z_expr)} :
          LET others == [i \in DOMAIN group_nodes |->
                            [group_nodes[i] EXCEPT
                                !.linked = @ /\ ~has_output]]
          IN  /\ g.status = "ok"
              /\ tree' = g.tree
              /\ builds' = g.calls
              /\ group_nodes' =
                    Append(others, DefaultExprs @@ [linked |-> has_output])
    /\ UNCHANGED group_output
    /\ UNCHANGED <<addon, expr, evals, report>>
    /\ UNCHANGED <<node_groups, objects, meshes>>

\* NODE_OT_add_plane_from_point_normal.execute in the same edit tree: the
\* Add of another add-on links its own node to the input Geometry of the
\* Group Output, which removes the link of the node that was linked to
\* it.  The node is no group node of the add-on and is not recorded.
OtherAddOp ==
    /\ group_output
    /\ \E a \in DOMAIN group_nodes : group_nodes[a].linked
    /\ group_nodes' = [a \in DOMAIN group_nodes |->
                          [group_nodes[a] EXCEPT !.linked = FALSE]]
    /\ UNCHANGED <<addon, expr, tree, builds, evals, group_output, report>>
    /\ UNCHANGED <<node_groups, objects, meshes>>

\* the panel of the node: the user types a text into one of the expression
\* fields of a group node; the texts are two that compile and one that
\* build_expr rejects after it has created nodes, and z_expr keeps its
\* default
EditOp ==
    /\ \E a \in DOMAIN group_nodes :
       \E e \in {[field |-> "x_expr", text |-> <<"2", "*", "t">>],
                 [field |-> "x_expr",
                  text |-> <<"s", "i", "n", "(", "1", ",", "2", ")">>],
                 [field |-> "y_expr", text |-> <<"2", "*", "t">>]} :
          group_nodes' = [group_nodes EXCEPT ![a][e.field] = e.text]
    /\ UNCHANGED group_output
    /\ UNCHANGED <<addon, expr, tree, builds, evals, report>>
    /\ UNCHANGED <<node_groups, objects, meshes>>

\* NODE_OT_build_parametric_curve.execute with node a active (a = 0: no
\* node, or a node that is not a Parametric Curve group node)
BuildOp ==
    \E a \in 0..Len(group_nodes) :
       IF a = 0
       THEN /\ report' = [level |-> "ERROR",
                          msg |-> <<"Select the 'Parametric Curve' node to build">>,
                          result |-> "CANCELLED"]
            /\ UNCHANGED group_output
            /\ UNCHANGED <<addon, expr, tree, builds, evals, group_nodes>>
            /\ UNCHANGED <<node_groups, objects, meshes>>
       ELSE \E g \in {build_group_from_expressions(group_nodes[a].x_expr,
                                                     group_nodes[a].y_expr,
                                                     group_nodes[a].z_expr)} :
                /\ tree' = g.tree
                /\ builds' = g.calls
                /\ report' =
                      IF g.status = "ok"
                      THEN [level |-> "INFO",
                            msg |-> <<"Parametric curve rebuilt">>,
                            result |-> "FINISHED"]
                      ELSE [level |-> "ERROR",
                            msg |-> <<"Parse/build error">> \o g.msg,
                            result |-> "CANCELLED"]
                /\ UNCHANGED group_output
                /\ UNCHANGED <<addon, expr, evals, group_nodes>>
                /\ UNCHANGED <<node_groups, objects, meshes>>

OpNext == AddOp \/ OtherAddOp \/ EditOp \/ BuildOp

OpSpec == OpInit /\ [][OpNext]_vars

----------------------------------------------------------------------------
(* The operators of the Parametric Surface add-on.  Every group node has   *)
(* a node group of its own unless the user duplicated the node: node_tree  *)
(* is the position of the node's group in node_groups.                     *)

\* the nodes build_group_from_expressions of the surface add-on creates
\* before it compiles the expressions: n_in (1), n_out (2), n_grid (3),
\* n_sep_uv (4), n_u_span (5), n_u_scaled (6), n_u (7), n_v_span (8),
\* n_v_scaled (9) and n_v (10); the outputs of n_u and n_v are the sockets
\* passed to build_expr for u and v
surface_scaffold ==
    [nodes |->
        <<NewNode("NodeGroupInput", "", Nothing, <<-1600, 200>>),
          NewNode("NodeGroupOutput", "", Nothing, <<1000, 200>>),
          NewNode("GeometryNodeMeshGrid", "", Nothing, <<-1400, 400>>),
          NewNode("ShaderNodeSeparateXYZ", "", Nothing, <<-1200, 600>>),
          NewNode("ShaderNodeMath", "SUBTRACT", Nothing, <<-1000, 800>>),
          NewNode("ShaderNodeMath", "MULTIPLY", Nothing, <<-800, 700>>),
          NewNode("ShaderNodeMath", "ADD", Nothing, <<-600, 700>>),
          NewNode("ShaderNodeMath", "SUBTRACT", Nothing, <<-1000, 500>>),
          NewNode("ShaderNodeMath", "MULTIPLY", Nothing, <<-800, 400>>),
          NewNode("ShaderNodeMath", "ADD", Nothing, <<-600, 400>>)>>,
     links |->
        <<[from |-> Output(1, "u Resolution"), to |-> 3,
           port |-> "Vertices X"],
          [from |-> Output(1, "v Resolution"), to |-> 3,
           port |-> "Vertices Y"],
          [from |-> Output(3, "UV Map"), to |-> 4, port |-> "Vector"],
          [from |-> Output(1, "u Max"), to |-> 5, input |-> 0],
          [from |-> Output(1, "u Min"), to |-> 5, input |-> 1],
          [from |-> Output(4, "X"), to |-> 6, input |-> 0],
          [from |-> OutputOf(5), to |-> 6, input |-> 1],
          [from |-> Output(1, "u Min"), to |-> 7, input |-> 0],
          [from |-> OutputOf(6), to |-> 7, input |-> 1],
          [from |-> Output(1, "v Max"), to |-> 8, input |-> 0],
          [from |-> Output(1, "v Min"), to |-> 8, input |-> 1],
          [from |-> Output(4, "Y"), to |-> 9, input |-> 0],
          [from |-> OutputOf(8), to |-> 9, input |-> 1],
          [from |-> Output(1, "v Min"), to |-> 10, input |-> 0],
          [from |-> OutputOf(9), to |-> 10, input |-> 1]>>]

\* the part of the surface add-on's build_group_from_expressions after the
\* three expressions have compiled: Combine XYZ and Set Position, the
\* last linked to the group output
surface_finish_group(t, calls) ==
    LET right == Max3(calls[1].x, calls[2].x, calls[3].x)
        n_combine == Len(t.nodes) + 1
        n_setpos == n_combine + 1
        t1 == AddNode(t, "ShaderNodeCombineXYZ", "", Nothing,
                      <<right + 60, 100>>)
        t2 == Link(Link(Link(t1, calls[1].sock, n_combine, 0),
                        calls[2].sock, n_combine, 1),
                   calls[3].sock, n_combine, 2)
        t3 == AddNode(t2, "GeometryNodeSetPosition", "", Nothing,
                      <<right + 280, 100>>)
        t4 == NamedLink(NamedLink(t3, Output(3, "Mesh"), n_setpos,
                                  "Geometry"),
                        Output(n_combine, "Vector"), n_setpos, "Position")
    IN  NamedLink(t4, Output(n_setpos, "Geometry"), 2, "Geometry")

\* build_group_from_expressions(x_expr, y_expr, z_expr, ng) of the surface
\* add-on: tree is what the group ng holds when the function returns or
\* raises, whether ng was created (ng=None) or emptied (ng.nodes.clear())
surface_build_group_from_expressions(x_expr, y_expr, z_expr) ==
    LET columns == <<Column(-200, 400, Sources["surface"], x_expr),
                     Column(-200, 100, Sources["surface"], y_expr),
                     Column(-200, -200, Sources["surface"], z_expr)>>
    IN  LetIn(build_columns(surface_scaffold, columns, 1, <<>>),
             LAMBDA c : IF c.status # "ok" THEN c
                        ELSE [c EXCEPT !.tree =
                                 surface_finish_group(c.tree, c.calls)])

SurfaceDefaultExprs ==
    [x_expr |-> <<"s", "i", "n", "(", "v", ")", "*",
                  "c", "o", "s", "(", "u", ")">>,
     y_expr |-> <<"s", "i", "n", "(", "v", ")", "*",
                  "s", "i", "n", "(", "u", ")">>,
     z_expr |-> <<"c", "o", "s", "(", "v", ")">>]

\* A variant of users that counts one user for every group; the property
\* C27 distinguishes the two.
users_One(k) == 1

\* node_tree.users of the k-th node group: the group nodes that use it
users(k) ==
    Cardinality({i \in DOMAIN group_nodes : group_nodes[i].node_tree = k})

SurfInit ==
    /\ addon = "surface"
    /\ expr = <<>>
    /\ tree = EmptyTree
    /\ builds = <<>>
    /\ evals = <<>>
    /\ group_nodes = <<>>
    /\ group_output \in BOOLEAN
    /\ report = NoReport
    /\ node_groups = <<>>
    /\ objects = {}
    /\ meshes = 0

\* NODE_OT_add_parametric_surface_gn.execute: a new group is built from
\* the default expressions and a group node that uses it is added to the
\* edit tree and linked to the input Geometry of the Group Output when
\* there is one, which removes the link of the node that was linked to it
SurfAddOp ==
    /\ Len(group_nodes) < MaxGroupNodes
    /\ \E has_output \in {group_output} :
       \E g \in {surface_build_group_from_expressions(
                    SurfaceDefaultExprs.x_expr, SurfaceDefaultExprs.y_expr,
                    SurfaceDefaultExprs.z_expr)} :
          LET others == [i \in DOMAIN group_nodes |->
                            [group_nodes[i] EXCEPT
                                !.linked = @ /\ ~has_output]]
          IN  /\ g.status = "ok"
              /\ node_groups' = Append(node_groups, g.tree)
              /\ builds' = g.calls
              /\ group_nodes' =
                    Append(others,
                           SurfaceDefaultExprs
                              @@ [linked |-> has_output,
                                  node_tree |-> Len(node_groups) + 1])
    /\ UNCHANGED group_output
    /\ UNCHANGED <<addon, expr, tree, evals, report, objects, meshes>>

\* the user duplicates a group node in the node editor: the copy has the
\* properties of the node and uses the same node group
SurfDuplicate ==
    /\ Len(group_nodes) < MaxGroupNodes
    /\ \E a \in DOMAIN group_nodes :
          group_nodes' =
             Append(group_nodes, [group_nodes[a] EXCEPT !.linked = FALSE])
    /\ UNCHANGED group_output
    /\ UNCHANGED <<addon, expr, tree, builds, evals, report>>
    /\ UNCHANGED <<node_groups, objects, meshes>>

\* the panel of the node: the user types a text into one of the expression
\* fields of a group node; the texts are one that compiles and one that
\* build_expr rejects after it has created nodes, and y_expr and z_expr
\* keep their defaults
SurfEditOp ==
    /\ \E a \in DOMAIN group_nodes :
       \E e \in {[field |-> "x_expr", text |-> <<"u", "*", "v">>],
                 [field |-> "x_expr",
                  text |-> <<"s", "i", "n", "(", "1", ",", "2", ")">>]} :
          group_nodes' = [group_nodes EXCEPT ![a][e.field] = e.text]
    /\ UNCHANGED group_output
    /\ UNCHANGED <<addon, expr, tree, builds, evals, report>>
    /\ UNCHANGED <<node_groups, objects, meshes>>

\* the run of NODE_OT_build_parametric_surface.execute with node a active
\* (a = 0: no node, or a node that is not a Parametric Surface group
\* node): a group
\* with more than one user is copied and the copy becomes the node's group,
\* then the node's group is emptied and rebuilt
SurfBuild(a) ==
    /\ IF a = 0
       THEN /\ report' = [level |-> "ERROR",
                          msg |-> <<"Select the 'Parametric Surface' node to build">>,
                          result |-> "CANCELLED"]
            /\ UNCHANGED <<builds, group_nodes, node_groups>>
       ELSE \E g \in {surface_build_group_from_expressions(
                         group_nodes[a].x_expr, group_nodes[a].y_expr,
                         group_nodes[a].z_expr)} :
               LET shared == users(group_nodes[a].node_tree) > 1
                   ng == IF shared THEN Len(node_groups) + 1
                         ELSE group_nodes[a].node_tree
               IN  /\ node_groups' =
                         IF shared THEN Append(node_groups, g.tree)
                         ELSE [node_groups EXCEPT ![ng] = g.tree]
                   /\ group_nodes' =
                         [group_nodes EXCEPT ![a].node_tree = ng]
                   /\ builds' = g.calls
                   /\ report' =
                         IF g.status = "ok"
                         THEN [level |-> "INFO",
                               msg |-> <<"Parametric surface rebuilt">>,
                               result |-> "FINISHED"]
                         ELSE [level |-> "ERROR",
                               msg |-> <<"Parse/build error">> \o g.msg,
                               result |-> "CANCELLED"]
    /\ UNCHANGED group_output
    /\ UNCHANGED <<addon, expr, tree, evals, objects, meshes>>

SurfBuildOp == \E a \in 0..Len(group_nodes) : SurfBuild(a)

SurfNext ==
    \/ SurfAddOp
    \/ OtherAddOp
    \/ SurfDuplicate
    \/ SurfEditOp
    \/ SurfBuildOp

SurfSpec == SurfInit /\ [][SurfNext]_vars

----------------------------------------------------------------------------
(* The operators of the Parametric Transformation Matrix add-on.  All       *)
(* group nodes of the add-on use the one node group named GROUP_NAME; tree *)
(* holds its nodes and links.  A group node stores the sixteen entries in  *)
(* m, row by row: m[4 * r + c + 1] is the property "m<r><c>".              *)

\* n_in (1) and n_out (2); the output "s" of n_in is the socket passed to
\* build_expr for s
matrix_scaffold ==
    [nodes |->
        <<NewNode("NodeGroupInput", "", Nothing, <<-2000, 0>>),
          NewNode("NodeGroupOutput", "", Nothing, <<2500, 0>>)>>,
     links |-> <<>>]

\* exprs_list: the base_y of the sixteen entries, row by row
matrix_base_y ==
    <<1200, 1000, 800, 600, 300, 100, -100, -300,
      -600, -800, -1000, -1200, -1500, -1700, -1900, -2100>>

\* max_x after the loop over exprs_list
RECURSIVE max_x(_, _)
max_x(calls, k) ==
    IF k = 0 THEN -1800
    ELSE LET m == max_x(calls, k - 1)
         IN  IF calls[k].x > m THEN calls[k].x ELSE m

\* A variant of transposed_socks that keeps the order of socks; the
\* property C29 distinguishes the two.
transposed_socks_RowMajor(socks) == socks

\* transposed_socks: for col in range(4), for row in range(4), the socket
\* socks[row * 4 + col] is appended
transposed_socks(socks) ==
    [p \in 1..16 |->
        LET col == (p - 1) \div 4
            row == (p - 1) % 4
        IN  socks[row * 4 + col + 1]]

\* links.new(sock, combine_matrix.inputs[i]) for the sockets of ordered
\* from the i-th on
RECURSIVE wire_inputs(_, _, _, _)
wire_inputs(t, ordered, i, n_combine) ==
    IF i > Len(ordered) THEN t
    ELSE wire_inputs(Link(t, ordered[i], n_combine, i - 1), ordered, i + 1,
                     n_combine)

\* the part of the matrix add-on's build_group_from_expressions after the
\* sixteen entries have compiled: the Combine Matrix node, its sixteen
\* inputs and the link to the group output
matrix_finish_group(t, calls) ==
    LET n_combine == Len(t.nodes) + 1
        socks == [k \in 1..Len(calls) |-> calls[k].sock]
        t1 == AddNode(t, "FunctionNodeCombineMatrix", "", Nothing,
                      <<max_x(calls, Len(calls)) + 120, 600>>)
        t2 == wire_inputs(t1, transposed_socks(socks), 1, n_combine)
    IN  NamedLink(t2, OutputOf(n_combine), 2, "Matrix")

\* build_group_from_expressions(m00_expr, ..., m33_expr) of the matrix
\* add-on, m_entries being its sixteen arguments
matrix_build_group_from_expressions(m_entries) ==
    LET columns == [k \in 1..16 |->
                       Column(-1000, matrix_base_y[k], Sources["matrix"],
                              m_entries[k])]
    IN  LetIn(build_columns(matrix_scaffold, columns, 1, <<>>),
             LAMBDA c : IF c.status # "ok" THEN c
                        ELSE [c EXCEPT !.tree =
                                 matrix_finish_group(c.tree, c.calls)])

\* the translation along x by s that the Add operator builds and stores
MatrixDefaultExprs ==
    <<<<"1">>, <<"0">>, <<"0">>, <<"s">>,
      <<"0">>, <<"1">>, <<"0">>, <<"0">>,
      <<"0">>, <<"0">>, <<"1">>, <<"0">>,
      <<"0">>, <<"0">>, <<"0">>, <<"1">>>>

MatInit ==
    /\ addon = "matrix"
    /\ expr = <<>>
    /\ tree = EmptyTree
    /\ builds = <<>>
    /\ evals = <<>>
    /\ group_nodes = <<>>
    /\ group_output \in BOOLEAN
    /\ report = NoReport
    /\ node_groups = <<>>
    /\ objects = {}
    /\ meshes = 0

\* NODE_OT_add_parametric_transformation_matrix_gn.execute
MatAddOp ==
    /\ Len(group_nodes) < MaxGroupNodes
    /\ \E g \in {matrix_build_group_from_expressions(MatrixDefaultExprs)} :
          /\ g.status = "ok"
          /\ tree' = g.tree
          /\ builds' = g.calls
          /\ group_nodes' = Append(group_nodes, [m |-> MatrixDefaultExprs])
    /\ UNCHANGED group_output
    /\ UNCHANGED <<addon, expr, evals, report>>
    /\ UNCHANGED <<node_groups, objects, meshes>>

\* the panel of the node: the user types a text into an entry field:
\* m01 = 2*s, m30 = s, or m12 = sin(1,2), which build_expr rejects
MatEditOp ==
    /\ \E a \in DOMAIN group_nodes :
       \E e \in {[entry |-> 2, text |-> <<"2", "*", "s">>],
                 [entry |-> 13, text |-> <<"s">>],
                 [entry |-> 7,
                  text |-> <<"s", "i", "n", "(", "1", ",", "2", ")">>]} :
          group_nodes' = [group_nodes EXCEPT ![a].m[e.entry] = e.text]
    /\ UNCHANGED group_output
    /\ UNCHANGED <<addon, expr, tree, builds, evals, report>>
    /\ UNCHANGED <<node_groups, objects, meshes>>

\* NODE_OT_build_parametric_transformation_matrix.execute with node a
\* active (a = 0: no node, or a node that is not a matrix group node)
MatBuildOp ==
    /\ \E a \in 0..Len(group_nodes) :
       IF a = 0
       THEN /\ report' = [level |-> "ERROR",
                          msg |-> <<"Select the 'Parametric Transformation Matrix' node to build">>,
                          result |-> "CANCELLED"]
            /\ UNCHANGED <<tree, builds>>
       ELSE \E g \in {matrix_build_group_from_expressions(
                         group_nodes[a].m)} :
               /\ tree' = g.tree
               /\ builds' = g.calls
               /\ report' =
                     IF g.status = "ok"
                     THEN [level |-> "INFO",
                           msg |-> <<"Parametric transformation matrix rebuilt">>,
                           result |-> "FINISHED"]
                     ELSE [level |-> "ERROR",
                           msg |-> <<"Parse/build error">> \o g.msg,
                           result |-> "CANCELLED"]
    /\ UNCHANGED group_output
    /\ UNCHANGED <<addon, expr, evals, group_nodes>>
    /\ UNCHANGED <<node_groups, objects, meshes>>

MatNext == MatAddOp \/ MatEditOp \/ MatBuildOp

MatSpec == MatInit /\ [][MatNext]_vars

----------------------------------------------------------------------------
(* The operators of the Calculate Surface add-on.  group_nodes holds the   *)
(* group nodes of the edit tree in the order of their creation; the node   *)
(* editor names them Group, Group.001, Group.002, ...  A group node is     *)
(* recorded with group, the name of its node group; a Parametric Curve     *)
(* node and a Parametric Transformation Matrix node with their expression  *)
(* properties and with to_calc, the Calculate Surface nodes that their     *)
(* output is linked to (the curve node to the input Curve Geometry, the    *)
(* matrix node to the input Matrix); every node with linked, whether its   *)
(* output Geometry is linked to the Group Output of the tree.  inputs      *)
(* holds the values of the unlinked input sockets of a node.  node_groups  *)
(* holds the node group of the add-on.  An object is recorded with its     *)
(* name, the numbers of vertices and faces of its mesh, whether it is the  *)
(* active object of the view layer and whether it is selected; all objects *)
(* are linked into the collection of the context.                          *)

MaxMeshes == 2

MaxEdits == 2

sweep_count == 50

\* obj_name = f"Surface_{node.name}" for the a-th group node of the tree
obj_name(a) ==
    LET digit(n) == SubSeq("0123456789", (n % 10) + 1, (n % 10) + 1)
    IN  "Surface_Group"
           \o IF a = 1 THEN ""
              ELSE "." \o digit((a - 1) \div 100) \o digit((a - 1) \div 10)
                       \o digit(a - 1)

\* build_group: the nodes and the link of the group Calculate Surface,
\* which is created or emptied first; the sockets of its interface give a
\* new group node the inputs s Min = 0.0, s Max = 1.0 and Resolution = 32
calc_build_group ==
    [tree |->
        NamedLink(AddNode(AddNode(EmptyTree, "NodeGroupInput", "", Nothing,
                                  <<0, 0>>),
                          "NodeGroupOutput", "", Nothing, <<500, 0>>),
                  Output(1, "Curve Geometry"), 2, "Geometry"),
     inputs |-> ("s Min" :> Whole(0)) @@ ("s Max" :> Whole(1))
                   @@ ("Resolution" :> 32)]

\* lo + (idx / max(1, count - 1)) * (hi - lo) for idx < count: a float
\* between lo and hi, which is finite when the model tracks lo and hi
sample(lo, hi, idx, count) ==
    LET Between(v) == IF Tracked(lo) /\ Tracked(hi) /\ v.k = "float"
                      THEN Special("finite") ELSE v
    IN  Between(Arith("+", lo,
                      Arith("*", Rat(idx, IF count - 1 > 1 THEN count - 1
                                          ELSE 1),
                            Arith("-", hi, lo))))

\* x_rpn = to_rpn(x_expr) ... m_rpn[key] = to_rpn(expr): the expressions
\* are parsed in turn; the first exception ends the parsing.  to_rpn is a
\* function of its argument: equal texts are parsed once.
parse_all(exprs) ==
    LET Of(parsed, k) == (CHOOSE v \in parsed : v[1] = exprs[k])[2]
        First(parsed, failing) ==
            IF failing = {}
            THEN [status |-> "ok", msg |-> None,
                  rpns |-> [k \in DOMAIN exprs |-> Of(parsed, k).rpn]]
            ELSE [status |->
                     Of(parsed, CHOOSE k \in failing :
                                   \A j \in failing : k <= j).status,
                  msg |->
                     Of(parsed, CHOOSE k \in failing :
                                   \A j \in failing : k <= j).msg,
                  rpns |-> <<>>]
        All(parsed) ==
            First(parsed,
                  {k \in DOMAIN exprs : Of(parsed, k).status # "ok"})
    IN  CHOOSE r \in
           {All(parsed) :
               parsed \in {{<<text, calc_to_rpn(text)>> :
                               text \in {exprs[k] : k \in DOMAIN exprs}}}} :
           TRUE

\* the evaluations of rpns in turn with the same variables (x, y and z
\* with t bound, or the sixteen entries with s bound); the first exception
\* ends them.  kinds holds the kinds of the values.  eval_rpn is a
\* function of its arguments: equal sequences are evaluated once.
eval_all(rpns, variables) ==
    LET Of(values, k) == (CHOOSE v \in values : v[1] = rpns[k])[2]
        First(values, failing) ==
            IF failing = {}
            THEN [status |-> "ok", msg |-> None,
                  kinds |-> {Of(values, k).value.k : k \in DOMAIN rpns}]
            ELSE [status |->
                     Of(values, CHOOSE k \in failing :
                                   \A j \in failing : k <= j).status,
                  msg |->
                     Of(values, CHOOSE k \in failing :
                                   \A j \in failing : k <= j).msg,
                  kinds |-> {}]
        All(values) ==
            First(values,
                  {k \in DOMAIN rpns : Of(values, k).status # "ok"})
    IN  CHOOSE r \in
           {All(values) :
               values \in {{<<rpn, eval_rpn(rpn, variables)>> :
                               rpn \in {rpns[k] : k \in DOMAIN rpns}}}} :
           TRUE

\* the body of the loops for one grid point, given the outcome of the
\* evaluations of x, y and z at its t and of the matrix entries at its s:
\* the curve is evaluated first, then the matrix; Matrix and Vector do
\* not accept a complex number, and an int they accept only when it is in
\* the range of their numbers
sweep_point(curve, matrix) ==
    IF curve.status # "ok"
    THEN [status |-> curve.status, msg |-> curve.msg]
    ELSE IF matrix.status # "ok"
    THEN [status |-> matrix.status, msg |-> matrix.msg]
    ELSE IF "bigint" \in curve.kinds \cup matrix.kinds
    THEN [status |-> "unknown", msg |-> None]
    ELSE IF "complex" \in curve.kinds \cup matrix.kinds
    THEN [status |-> "TypeError", msg |-> None]
    ELSE [status |-> "ok", msg |-> None]

\* the loops over s_idx and t_idx: s runs over [s_min, s_max] and t over
\* [t_min, t_max]; the grid points are visited in the order of
\* p = s_idx * resolution + t_idx and the first exception ends the loops.
\* The result is the set of the outcomes that the loops can have: the
\* exception of the first point that raises one for certain (ok when there
\* is no such point) and, when a point before it may raise an exception,
\* unknown.  eval_rpn is a function of its arguments: the curve is
\* evaluated once for every value of t and the matrix once for every
\* value of s, each with the first index that has the value; every pair
\* of a t and an s is a point of the grid, and the first point with the
\* pair has the first s_idx and the first t_idx.
sweep(rpns, t_min, t_max, s_min, s_max, resolution) ==
    LET T(t_idx) == IF resolution > 1
                    THEN sample(t_min, t_max, t_idx, resolution)
                    ELSE t_min
        S(s_idx) == sample(s_min, s_max, s_idx, sweep_count)
        Min(ps) == CHOOSE p \in ps : \A q \in ps : p <= q
        Rows(samples, of, name) ==
            {[idx |-> Min({x[2] : x \in {y \in samples : y[1] = v}}),
              r |-> eval_all(of, name :> v)] :
                v \in {x[1] : x \in samples}}
        Points(curves, matrices) ==
            {[p |-> m.idx * resolution + c.idx, r |-> sweep_point(c.r, m.r)] :
                c \in curves, m \in matrices}
        Outcomes(raising, unknown) ==
            {IF raising = {} THEN [status |-> "ok", msg |-> None]
             ELSE (CHOOSE x \in raising :
                      \A y \in raising : x.p <= y.p).r}
               \cup {[status |-> "unknown", msg |-> None] :
                        x \in {y \in unknown :
                                  \A z \in raising : y.p < z.p}}
        Loops(points) ==
            Outcomes({x \in points : x.r.status \notin {"ok", "unknown"}},
                     {x \in points : x.r.status = "unknown"})
    IN  CHOOSE r \in
           {Loops(points) :
               points \in
                  {Points(Rows({<<T(t_idx), t_idx>> :
                                   t_idx \in 0..(resolution - 1)},
                               SubSeq(rpns, 1, 3), <<"t">>),
                          Rows({<<S(s_idx), s_idx>> :
                                   s_idx \in 0..(sweep_count - 1)},
                               SubSeq(rpns, 4, Len(rpns)), <<"s">>))}} :
           TRUE

\* the report of an early return (a text) and of the except clause
\* ("Error" and the message of the exception)
CalcCancelled(msg) ==
    [level |-> "ERROR", msg |-> msg, result |-> "CANCELLED"]

\* a group node of the node group named group as its add operator
\* creates it and as the operator reads it: the expressions of a curve
\* node and its inputs t Min = 0.0 and t Max = 1.0, the entries of a
\* matrix node, the inputs of a Calculate Surface node; the node of
\* another add-on has none of them
CalcDefaults(group) ==
    [group |-> group, linked |-> FALSE]
       @@ CASE group = "Parametric Curve" ->
                  DefaultExprs
                     @@ [inputs |-> ("t Min" :> Whole(0))
                                       @@ ("t Max" :> Whole(1)),
                         to_calc |-> {}]
            [] group = "Parametric Transformation Matrix" ->
                  [m |-> MatrixDefaultExprs, to_calc |-> {}]
            [] group = "Calculate Surface" ->
                  [inputs |-> calc_build_group.inputs]
            [] OTHER -> [linked |-> FALSE]

\* an edit tree, with a Group Output or without one, to which the add
\* operators of Calculate Surface, Parametric Curve and Parametric
\* Transformation Matrix have added one node each, in this order: the
\* Add of the curve node has taken the link to the Group Output from the
\* Calculate Surface node, and the Add of the matrix node links nothing
CalcInit ==
    /\ addon = "calc"
    /\ expr = <<>>
    /\ tree = EmptyTree
    /\ builds = <<>>
    /\ evals = <<>>
    /\ group_output \in BOOLEAN
    /\ group_nodes =
          <<CalcDefaults("Calculate Surface"),
            [CalcDefaults("Parametric Curve") EXCEPT
                !.linked = group_output],
            CalcDefaults("Parametric Transformation Matrix")>>
    /\ report = NoReport
    /\ node_groups = <<calc_build_group.tree>>
    /\ objects = {}
    /\ meshes = 0

\* an Add operator that creates a group node of the node group named
\* group in the edit tree and, when the tree has a Group Output with an
\* input Geometry, links the output of the node to it; the input holds
\* one link, so the link of the node that was linked to it is removed
auto_wire(group) ==
    Append([i \in DOMAIN group_nodes |->
               [group_nodes[i] EXCEPT !.linked = @ /\ ~group_output]],
           [CalcDefaults(group) EXCEPT !.linked = group_output])

\* NODE_OT_add_calculate_surface_gn.execute: the group is built again, a
\* group node that uses it is added to the edit tree and linked to the
\* Group Output when there is one.  The edit tree holds at most
\* MaxGroupNodes group nodes besides the curve node and the matrix node.
CalcAddOp ==
    /\ Len(group_nodes) < MaxGroupNodes + 2
    /\ group_nodes' = auto_wire("Calculate Surface")
    /\ node_groups' = <<calc_build_group.tree>>
    /\ UNCHANGED group_output
    /\ UNCHANGED <<addon, expr, tree, builds, evals, report, objects,
                   meshes>>

\* NODE_OT_add_parametric_curve_gn.execute in the same edit tree: a
\* curve node with the default expressions is added and linked to the
\* Group Output when there is one
CalcCurveAddOp ==
    /\ Len(group_nodes) < MaxGroupNodes + 2
    /\ group_nodes' = auto_wire("Parametric Curve")
    /\ UNCHANGED <<addon, expr, tree, builds, evals, group_output, report>>
    /\ UNCHANGED <<node_groups, objects, meshes>>

\* NODE_OT_add_parametric_surface_gn.execute in the same edit tree: a
\* surface node is added and linked to the Group Output when there is
\* one.  Its expressions are not recorded: no operator of Calculate
\* Surface reads them.
CalcSurfaceAddOp ==
    /\ Len(group_nodes) < MaxGroupNodes + 2
    /\ group_nodes' = auto_wire("Parametric Surface")
    /\ UNCHANGED <<addon, expr, tree, builds, evals, group_output, report>>
    /\ UNCHANGED <<node_groups, objects, meshes>>

\* NODE_OT_add_plane_from_point_normal.execute in the same edit tree: a
\* plane node is added and linked to the Group Output when there is one
CalcPlaneAddOp ==
    /\ Len(group_nodes) < MaxGroupNodes + 2
    /\ group_nodes' = auto_wire("Plane From Point + Normal")
    /\ UNCHANGED <<addon, expr, tree, builds, evals, group_output, report>>
    /\ UNCHANGED <<node_groups, objects, meshes>>

\* NODE_OT_add_vector_arrow.execute in the same edit tree: an arrow node
\* is added and linked to the Group Output when there is one
CalcArrowAddOp ==
    /\ Len(group_nodes) < MaxGroupNodes + 2
    /\ group_nodes' = auto_wire("Vector Arrow")
    /\ UNCHANGED <<addon, expr, tree, builds, evals, group_output, report>>
    /\ UNCHANGED <<node_groups, objects, meshes>>

\* NODE_OT_add_parametric_transformation_matrix_gn.execute in the same
\* edit tree: a matrix node with the default entries is added; the
\* operator links nothing, so the links to the Group Output stay
CalcMatrixAddOp ==
    /\ Len(group_nodes) < MaxGroupNodes + 2
    /\ group_nodes' = 
          Append(group_nodes,
                 CalcDefaults("Parametric Transformation Matrix"))
    /\ UNCHANGED <<addon, expr, tree, builds, evals, group_output, report>>
    /\ UNCHANGED <<node_groups, objects, meshes>>

\* NODE_OT_add_bezier_from_4_points_manual.execute in the same edit tree
\* (of a Geometry Nodes editor): a Bezier node is added and nothing is
\* linked
CalcBezierAddOp ==
    /\ Len(group_nodes) < MaxGroupNodes + 2
    /\ group_nodes' = 
          Append(group_nodes, CalcDefaults("Bezier From 4 Points"))
    /\ UNCHANGED <<addon, expr, tree, builds, evals, group_output, report>>
    /\ UNCHANGED <<node_groups, objects, meshes>>

\* NODE_OT_pivot_transform.execute in the same edit tree: a node of the
\* group Transform Geometry with Pivot is added and nothing is linked
CalcPivotAddOp ==
    /\ Len(group_nodes) < MaxGroupNodes + 2
    /\ group_nodes' = 
          Append(group_nodes, CalcDefaults("Transform Geometry with Pivot"))
    /\ UNCHANGED <<addon, expr, tree, builds, evals, group_output, report>>
    /\ UNCHANGED <<node_groups, objects, meshes>>

\* the user links the output of a curve node or of a matrix node to the
\* input Curve Geometry or Matrix of a Calculate Surface node, or removes
\* the link.  An input holds one link: the new link replaces the link
\* of another curve node or matrix node to the same input.
CalcLink ==
    /\ \E a \in DOMAIN group_nodes :
       \E c \in DOMAIN group_nodes :
          /\ group_nodes[a].group \in {"Parametric Curve",
                                       "Parametric Transformation Matrix"}
          /\ group_nodes[c].group = "Calculate Surface"
          /\ group_nodes' =
                [b \in DOMAIN group_nodes |->
                    IF b = a
                    THEN [group_nodes[b] EXCEPT
                             !.to_calc = IF c \in @ THEN @ \ {c}
                                         ELSE @ \cup {c}]
                    ELSE IF group_nodes[b].group = group_nodes[a].group
                    THEN [group_nodes[b] EXCEPT !.to_calc = @ \ {c}]
                    ELSE group_nodes[b]]
    /\ UNCHANGED group_output
    /\ UNCHANGED <<addon, expr, tree, builds, evals, report>>
    /\ UNCHANGED <<node_groups, objects, meshes>>

\* the user edits a property or an input of a node.  The panel of the
\* curve node: x_expr = ln(t) (not defined at t = 0) or x_expr = $ (no
\* token); the panel of the matrix node: m00 = sqrt(s) (not defined for
\* s < 0); the input t Min of the curve node and the inputs s Min and
\* Resolution of a Calculate Surface node.  At most MaxEdits properties
\* and inputs of the tree differ from their defaults.
CalcEdit ==
    LET Differ(node, default) ==
           Cardinality({f \in {"x_expr", "y_expr", "z_expr", "m"} :
                           f \in DOMAIN node /\ node[f] # default[f]})
           + IF "inputs" \in DOMAIN node
             THEN Cardinality({i \in DOMAIN node.inputs :
                                  node.inputs[i] # default.inputs[i]})
             ELSE 0
        RECURSIVE Edited(_, _)
        Edited(g, k) ==
           IF k = 0 THEN 0
           ELSE Differ(g[k], CalcDefaults(g[k].group)) + Edited(g, k - 1)
    IN  /\ \E c \in DOMAIN group_nodes :
              \/ /\ group_nodes[c].group = "Parametric Curve"
                 /\ \E text \in {<<"l", "n", "(", "t", ")">>, <<"$">>} :
                       group_nodes' = [group_nodes EXCEPT ![c].x_expr = text]
              \/ /\ group_nodes[c].group = "Parametric Transformation Matrix"
                 /\ group_nodes' =
                       [group_nodes EXCEPT
                           ![c].m[1] = <<"s", "q", "r", "t", "(", "s", ")">>]
              \/ /\ group_nodes[c].group = "Parametric Curve"
                 /\ group_nodes' =
                       [group_nodes EXCEPT ![c].inputs["t Min"] = Rat(1, 2)]
              \/ /\ group_nodes[c].group = "Calculate Surface"
                 /\ group_nodes' =
                       [group_nodes EXCEPT ![c].inputs["s Min"] = Whole(-1)]
              \/ /\ group_nodes[c].group = "Calculate Surface"
                 /\ \E resolution \in {0, 2} :
                       group_nodes' =
                          [group_nodes EXCEPT
                              ![c].inputs["Resolution"] = resolution]
        /\ Edited(group_nodes', Len(group_nodes')) <= MaxEdits
        /\ UNCHANGED group_output
        /\ UNCHANGED <<addon, expr, tree, builds, evals, report>>
        /\ UNCHANGED <<node_groups, objects, meshes>>

\* GEOMETRY_OT_calculate_surface.execute with the a-th group node active
\* (a = 0: no node is active).  curve_node and matrix_node are the nodes
\* linked to the inputs of the active node.  The expressions are parsed,
\* the object of an earlier run on the node is removed, a new mesh and a
\* new object are created and linked, and then the grid is evaluated; an
\* exception at any of these steps is reported and ends the run.  A run
\* without exception fills the mesh, makes the object the active object
\* and selects it.  An evaluation whose outcome the model does not track
\* may raise or not.
CalcOp ==
    /\ \E a \in 0..Len(group_nodes) :
       \E curves \in {{c \in DOMAIN group_nodes :
                          /\ group_nodes[c].group = "Parametric Curve"
                          /\ a \in group_nodes[c].to_calc}} :
       \E matrices \in {{c \in DOMAIN group_nodes :
                            /\ group_nodes[c].group
                                  = "Parametric Transformation Matrix"
                            /\ a \in group_nodes[c].to_calc}} :
          IF a = 0 \/ group_nodes[IF a = 0 THEN 1 ELSE a].group
                         # "Calculate Surface"
          THEN /\ report' = CalcCancelled(
                     <<"Select the 'Calculate Surface' node">>)
               /\ UNCHANGED <<objects, meshes>>
          ELSE IF curves = {}
          THEN /\ report' = CalcCancelled(
                     <<"Connect a Parametric Curve to Curve Geometry input">>)
               /\ UNCHANGED <<objects, meshes>>
          ELSE IF matrices = {}
          THEN /\ report' = CalcCancelled(
                     <<"Connect a Parametric Transformation Matrix to Matrix input">>)
               /\ UNCHANGED <<objects, meshes>>
          ELSE \E curve_node \in {group_nodes[c] : c \in curves} :
               \E matrix_node \in {group_nodes[c] : c \in matrices} :
               \E resolution \in {group_nodes[a].inputs["Resolution"]} :
               \E p \in {parse_all(<<curve_node.x_expr, curve_node.y_expr,
                                     curve_node.z_expr>>
                                      \o matrix_node.m)} :
                  IF p.status # "ok"
                  THEN /\ report' = CalcCancelled(<<"Error">> \o p.msg)
                       /\ UNCHANGED <<objects, meshes>>
                  ELSE /\ meshes < MaxMeshes
                       /\ \E r \in sweep(p.rpns,
                                         curve_node.inputs["t Min"],
                                         curve_node.inputs["t Max"],
                                         group_nodes[a].inputs["s Min"],
                                         group_nodes[a].inputs["s Max"],
                                         resolution) :
                          \E raised \in {r.status # "ok"} :
                             /\ meshes' = meshes + 1
                             /\ objects' =
                                   {IF raised THEN o
                                    ELSE [o EXCEPT !.active = FALSE] :
                                       o \in {o \in objects :
                                                 o.name # obj_name(a)}}
                                      \cup
                                   {[name |-> obj_name(a),
                                     verts |->
                                        IF raised \/ resolution < 1 THEN 0
                                        ELSE sweep_count * resolution,
                                     faces |->
                                        IF raised \/ resolution < 2 THEN 0
                                        ELSE (sweep_count - 1)
                                                * (resolution - 1),
                                     active |-> ~raised,
                                     select |-> ~raised]}
                             /\ report' =
                                   IF raised
                                   THEN CalcCancelled(<<"Error">> \o r.msg)
                                   ELSE [level |-> "INFO",
                                         msg |-> <<"Surface created">>,
                                         grid |-> <<sweep_count, resolution>>,
                                         result |-> "FINISHED"]
    /\ UNCHANGED group_output
    /\ UNCHANGED <<addon, expr, tree, builds, evals, group_nodes,
                   node_groups>>

CalcNext ==
    \/ CalcAddOp
    \/ CalcCurveAddOp
    \/ CalcSurfaceAddOp
    \/ CalcMatrixAddOp
    \/ CalcPlaneAddOp
    \/ CalcArrowAddOp
    \/ CalcBezierAddOp
    \/ CalcPivotAddOp
    \/ CalcLink
    \/ CalcEdit
    \/ CalcOp

CalcSpec == CalcInit /\ [][CalcNext]_vars

----------------------------------------------------------------------------
(* Properties of the expression compiler.  Each is stated over the calls   *)
(* recorded in builds and evals.                                           *)

\* the dictionary binds exactly the names build_expr binds to sockets
SameNames(variables) == DOMAIN variables = {<<n>> : n \in Sources[addon]}

IsOp(tok, c) == tok[1] = "OP" /\ tok[2] = c
IsOperand(tok) == tok[1] \in {"NUMBER", "ID"}
IsOperator(tok) == tok[1] \in {"OP", "UNARY", "FUNC"}

\* the number of elements of s that satisfy Test
Count(s, Test(_)) == Len(SelectSeq(s, Test))

\* the nodes and the links that call i of build_expr created
NodesOf(i) == SubSeq(tree.nodes, builds[i].nodes0 + 1, builds[i].nodes1)

LinksOf(i) == SubSeq(tree.links, builds[i].links0 + 1, builds[i].links1)

\* C1: for every expression and every set of bound names, build_expr over
\* the to_rpn of its add-on succeeds exactly when eval_rpn over the to_rpn
\* of calculate_surface_node.py succeeds: the two backends accept and
\* reject the same expressions.  (An evaluation whose outcome depends on a
\* float the model does not track is left out.)
C1_SameAcceptance ==
    \A i \in DOMAIN builds : \A j \in DOMAIN evals :
        (SameNames(evals[j].variables) /\ evals[j].status # "unknown")
            => ((builds[i].status = "ok") <=> (evals[j].status = "ok"))

\* C2: for every expression, the to_rpn of calculate_surface_node.py and
\* the to_rpn of the parametric add-ons behave identically: either both
\* fail or both return the same RPN token sequence.
C2_SameRpn ==
    \A i \in DOMAIN builds : \A j \in DOMAIN evals :
        /\ (builds[i].parsed = "ok") <=> (evals[j].parsed = "ok")
        /\ builds[i].parsed = "ok" => builds[i].rpn = evals[j].rpn

\* The grammar of C3, parsed by precedence climbing:
\*     E ::= A (op A)*     A ::= NUMBER | ID | "(" E ")"
\* where ^ binds tightest and to the right, * and / next and to the left,
\* + and - loosest and to the left.  A parse is [ok, out, next]: out is the
\* postfix form of the tokens read and next the index of the token after
\* them.
RefPrec(op) ==
    CASE op = "^" -> 3
      [] op \in {"*", "/"} -> 2
      [] op \in {"+", "-"} -> 1

RefRightAssoc(op) == op = "^"

RefFail == [ok |-> FALSE, out |-> <<>>, next |-> 0]

RECURSIVE RefExpr(_, _, _)
RECURSIVE RefTail(_, _, _, _)
RECURSIVE RefAtom(_, _)

\* an operand, or a parenthesised expression
RefAtom(toks, i) ==
    IF i > Len(toks) THEN RefFail
    ELSE IF IsOperand(toks[i])
    THEN [ok |-> TRUE, out |-> <<toks[i]>>, next |-> i + 1]
    ELSE IF IsOp(toks[i], "(")
    THEN LET e == RefExpr(toks, i + 1, 1) IN
         IF e.ok /\ e.next <= Len(toks) /\ IsOp(toks[e.next], ")")
         THEN [e EXCEPT !.next = @ + 1]
         ELSE RefFail
    ELSE RefFail

\* the operators of precedence at least min that follow the operand left
RefTail(toks, i, min, left) ==
    IF /\ i <= Len(toks)
       /\ toks[i][1] = "OP"
       /\ toks[i][2] \in Alphabets.ops
       /\ RefPrec(toks[i][2]) >= min
    THEN LET op == toks[i][2]
             r == RefExpr(toks, i + 1,
                          IF RefRightAssoc(op) THEN RefPrec(op)
                                               ELSE RefPrec(op) + 1)
         IN  IF r.ok
             THEN RefTail(toks, r.next, min, left \o r.out \o <<toks[i]>>)
             ELSE RefFail
    ELSE [ok |-> TRUE, out |-> left, next |-> i]

RefExpr(toks, i, min) ==
    LET a == RefAtom(toks, i) IN
    IF a.ok THEN RefTail(toks, a.next, min, a.out) ELSE RefFail

RefParse(e) ==
    LET tk == tokenize(strip(e)) IN
    IF tk.err # None THEN RefFail ELSE RefExpr(tk.toks, 1, 1)

\* e is built from operands, parentheses and binary operators
InGrammar(e) ==
    RefParse(e).ok /\ RefParse(e).next = Len(tokenize(strip(e)).toks) + 1

\* C3: for every expression built from operands, parentheses and the
\* binary operators + - * / ^, each to_rpn returns the postfix form of the
\* parse in which ^ binds tightest and is right-associative, * and / bind
\* next and are left-associative, and + and - bind loosest and are
\* left-associative; 1+2*3 evaluates to 7, (1+2)*3 to 9 and 2^3^2 to 512.
C3_Precedence ==
    InGrammar(expr) =>
        /\ \A i \in DOMAIN builds :
              builds[i].parsed = "ok" /\ builds[i].rpn = RefParse(expr).out
        /\ \A j \in DOMAIN evals :
              /\ evals[j].parsed = "ok"
              /\ evals[j].rpn = RefParse(expr).out
              /\ expr = <<"1", "+", "2", "*", "3">>
                    => evals[j].value = Whole(7)
              /\ expr = <<"(", "1", "+", "2", ")", "*", "3">>
                    => evals[j].value = Whole(9)
              /\ expr = <<"2", "^", "3", "^", "2">>
                    => evals[j].value = Whole(512)

\* 2^3^2 has been parsed by both to_rpn and evaluated to 512
C3_Witness ==
    /\ expr = <<"2", "^", "3", "^", "2">>
    /\ builds # <<>> /\ builds[1].parsed = "ok"
    /\ evals # <<>> /\ evals[1].value = Whole(512)

\* the value eval_rpn pushes for an operand token
OperandValue(tok, variables) ==
    IF tok[1] = "NUMBER" THEN float(tok[2])
    ELSE lookup(lower(tok[2]), variables)

IsWhole(v) == v.k = "rat" /\ v.d = 1

\* the tokens of e are  - base ^ exponent
IsNegPower(toks) ==
    /\ Len(toks) = 4
    /\ IsOp(toks[1], "-") /\ IsOperand(toks[2])
    /\ IsOp(toks[3], "^") /\ IsOperand(toks[4])

\* C4: for a unary minus written directly before the base of a power, the
\* evaluator applies the power to the base and negates the result, never
\* (-base)^exponent; eval_rpn(to_rpn("-2^2"), {}) is -4.
C4_NegatedPower ==
    \A j \in DOMAIN evals :
        LET tk == tokenize(strip(expr))
            toks == tk.toks
        IN  (tk.err = None /\ IsNegPower(toks)) =>
              /\ evals[j].parsed = "ok"
              /\ evals[j].rpn =
                    <<toks[2], toks[4], <<"OP", "^">>, <<"UNARY", "neg">>>>
              /\ LET base == OperandValue(toks[2], evals[j].variables)
                     exponent == OperandValue(toks[4], evals[j].variables)
                 IN  (/\ IsWhole(base) /\ base.n \in 1..4
                      /\ IsWhole(exponent) /\ exponent.n \in 0..6)
                        => /\ evals[j].status = "ok"
                           /\ evals[j].value = Whole(-(base.n ^ exponent.n))
              /\ expr = <<"-", "2", "^", "2">> => evals[j].value = Whole(-4)

\* -2^2 has been evaluated to -4
C4_Witness ==
    /\ expr = <<"-", "2", "^", "2">>
    /\ evals # <<>> /\ evals[1].status = "ok" /\ evals[1].value = Whole(-4)

\* the number of "(" minus the number of ")" in the first k characters
RECURSIVE ParenDepth(_, _)
ParenDepth(e, k) ==
    IF k = 0 THEN 0
    ELSE ParenDepth(e, k - 1)
         + (IF e[k] = "(" THEN 1 ELSE IF e[k] = ")" THEN -1 ELSE 0)

\* a ")" with no "(" before it, or a "(" never closed
Unbalanced(e) ==
    \/ \E k \in 1..Len(e) : ParenDepth(e, k) < 0
    \/ ParenDepth(e, Len(e)) # 0

\* C5: to_rpn raises a parse error, and returns no RPN sequence, for every
\* expression with unbalanced parentheses, in calculate_surface_node.py as
\* in the parametric add-ons.
C5_UnbalancedRejected ==
    Unbalanced(expr) =>
        /\ \A i \in DOMAIN builds :
              builds[i].parsed = "ValueError" /\ builds[i].rpn = <<>>
        /\ \A j \in DOMAIN evals :
              evals[j].parsed = "ValueError" /\ evals[j].rpn = <<>>

\* the positions of the identifier tokens of rpn that are neither among the
\* bound names nor a constant
UnknownIds(rpn, bound) ==
    {i \in DOMAIN rpn :
        /\ rpn[i][1] = "ID"
        /\ lower(rpn[i][2]) \notin bound
        /\ NameOf(lower(rpn[i][2])) \notin Constants}

Min(S) == CHOOSE x \in S : \A y \in S : x <= y

\* every token before position i is an operand
OperandsBefore(rpn, i) == \A k \in 1..(i - 1) : IsOperand(rpn[k])

\* C6: an identifier token is resolved case-insensitively, first against
\* the bound variables and only then against pi, e and tau, so that a bound
\* variable shadows a constant of the same name; any other identifier makes
\* eval_rpn fail with "Unknown variable" and build_expr fail with "Unknown
\* identifier", and no result is returned.
C6_IdentifierResolution ==
    /\ \A j \in DOMAIN evals :
          LET ev == evals[j]
              bound == DOMAIN ev.variables
              unknown == UnknownIds(ev.rpn, bound)
          IN  ev.parsed = "ok" =>
                /\ unknown # {} =>
                      /\ ev.status # "ok" /\ ev.value = Nothing
                      /\ OperandsBefore(ev.rpn, Min(unknown)) =>
                            /\ ev.status = "ValueError"
                            /\ ev.msg = <<"Unknown variable",
                                          lower(ev.rpn[Min(unknown)][2])>>
                /\ (unknown = {} /\ ev.status = "ValueError")
                      => ev.msg = None
                /\ (Len(ev.rpn) = 1 /\ ev.rpn[1][1] = "ID" /\ unknown = {}) =>
                      LET name == lower(ev.rpn[1][2]) IN
                      /\ ev.status = "ok"
                      /\ ev.value = IF name \in bound
                                    THEN ev.variables[name]
                                    ELSE Special(NameOf(name))
    /\ \A i \in DOMAIN builds :
          LET b == builds[i]
              bound == {<<n>> : n \in Sources[addon]}
              unknown == UnknownIds(b.rpn, bound)
          IN  b.parsed = "ok" =>
                /\ unknown # {} =>
                      /\ b.status # "ok" /\ b.sock = NoSocket
                      /\ OperandsBefore(b.rpn, Min(unknown)) =>
                            /\ b.status = "ValueError"
                            /\ b.msg = <<"Unknown identifier",
                                         b.rpn[Min(unknown)][2]>>
                /\ (unknown = {} /\ b.status = "ValueError")
                      => b.msg[1] # "Unknown identifier"
                /\ (Len(b.rpn) = 1 /\ b.rpn[1][1] = "ID" /\ unknown = {}) =>
                      LET name == lower(b.rpn[1][2]) IN
                      /\ b.status = "ok"
                      /\ IF name \in bound
                         THEN /\ b.sock = source_socket(NameOf(name))
                              /\ NodesOf(i) = <<>>
                         ELSE /\ b.sock = OutputOf(b.nodes0 + 1)
                              /\ Len(NodesOf(i)) = 1
                              /\ NodesOf(i)[1].value = Special(NameOf(name))

\* PI, written in upper case, has been evaluated with pi bound to 3 and
\* compiled with pi not bound
C6_Witness ==
    /\ expr = <<"P", "I">>
    /\ evals # <<>>
    /\ <<"p", "i">> \in DOMAIN evals[1].variables
    /\ evals[1].value = Whole(3)
    /\ builds # <<>> /\ builds[1].status = "ok"
    /\ tree.nodes[1].value = Special("pi")

\* C7: in eval_rpn a binary / whose right operand is exactly 0 pushes 0 and
\* raises no error, for every left operand; "1/0" evaluates to 0.  The 0
\* pushed is the int 0 of the conditional expression.
C7_DivisionByZero ==
    \A j \in DOMAIN evals :
        LET ev == evals[j] IN
        /\ (ev.parsed = "ok" /\ ev.rpn # <<>> /\ IsOp(Last(ev.rpn), "/")) =>
              LET before == eval_rpn(Front(ev.rpn), ev.variables)
                  n == Len(before.stack)
              IN  (/\ before.status = "ok" /\ n >= 2
                   /\ IsZero(before.stack[n]))
                     => /\ ev.status = "ok"
                        /\ ev.stack = Append(SubSeq(before.stack, 1, n - 2),
                                             int(0))
        /\ expr = <<"1", "/", "0">>
              => ev.status = "ok" /\ ev.value = int(0)

\* 1/0 has been evaluated to 0
C7_Witness ==
    /\ expr = <<"1", "/", "0">>
    /\ evals # <<>> /\ evals[1].status = "ok"
    /\ evals[1].value = int(0)

\* what C8 expects of the result res of  a OP b  or  f(a, b)  over whole
\* numbers a and b
OrderedResult(tok, a, b, res) ==
    LET f == IF tok[1] = "FUNC" THEN NameOf(lower(tok[2])) ELSE "" IN
    IF IsOp(tok, "-")
    THEN res.status = "ok" /\ res.value = Whole(a - b)
    ELSE IF IsOp(tok, "/") /\ b # 0
    THEN /\ res.status = "ok"
         /\ res.value.k = "rat" => res.value.n * b = a * res.value.d
         /\ a % b = 0 => res.value.k = "rat"
    ELSE IF /\ (IsOp(tok, "^") \/ f = "pow")
            /\ ((a \in 1..10 /\ b \in 0..4) \/ (a \in 1..2 /\ b \in 0..10))
    THEN res.status = "ok" /\ res.value = Whole(a ^ b)
    ELSE IF f = "mod" /\ a >= 0 /\ b > 0
    THEN res.status = "ok" /\ res.value = Whole(a % b)
    ELSE IF f = "log" /\ a \in 1..10 /\ b \in 2..10
    THEN /\ res.status = "ok"
         /\ (IsWhole(res.value) /\ res.value.n \in 0..4)
               => b ^ res.value.n = a
         /\ (\E k \in 0..3 : b ^ k = a) => IsWhole(res.value)
    ELSE TRUE

\* C8: eval_rpn applies every binary operator and every two-argument
\* function to its operands in source order: for the left operand a and the
\* right operand b the result is a OP b, so a-b, a/b, a^b, pow(a,b) and
\* mod(a,b) take a as the left operand and log(a,b) is the logarithm of a
\* in base b; pow(2,10) = 1024 and log(8,2) = 3.
C8_OperandOrder ==
    \A j \in DOMAIN evals :
        LET ev == evals[j] IN
        /\ (/\ ev.parsed = "ok" /\ Len(ev.rpn) = 3
            /\ IsOperand(ev.rpn[1]) /\ IsOperand(ev.rpn[2])
            /\ ev.rpn[3][1] \in {"OP", "FUNC"}
            /\ ev.rpn[3][1] = "FUNC" => ev.rpn[3][3] = 2) =>
              LET a == OperandValue(ev.rpn[1], ev.variables)
                  b == OperandValue(ev.rpn[2], ev.variables)
              IN  (IsWhole(a) /\ IsWhole(b))
                     => OrderedResult(ev.rpn[3], a.n, b.n, ev)
        /\ expr = <<"p", "o", "w", "(", "2", ",", "1", "0", ")">>
              => ev.value = Whole(1024)
        /\ expr = <<"l", "o", "g", "(", "8", ",", "2", ")">>
              => ev.value = Whole(3)

\* log(8,2) has been evaluated to 3
C8_Witness ==
    /\ expr = <<"l", "o", "g", "(", "8", ",", "2", ")">>
    /\ evals # <<>> /\ evals[1].status = "ok" /\ evals[1].value = Whole(3)

IsValueNode(n) == n.type = "ShaderNodeValue"
IsMathNode(n) == n.type = "ShaderNodeMath"

\* the value of the Value node build_expr creates for a token, for the
\* tokens that get one
IsLiteral(tok) ==
    \/ tok[1] = "NUMBER"
    \/ tok[1] = "ID" /\ NameOf(lower(tok[2])) \in Constants
          /\ NameOf(lower(tok[2])) \notin Sources[addon]

LiteralValue(tok) ==
    IF tok[1] = "NUMBER" THEN float(tok[2])
    ELSE Special(NameOf(lower(tok[2])))

SeqMap(Op(_), s) == [k \in DOMAIN s |-> Op(s[k])]

NodeValue(n) == n.value

\* C9: build_expr creates no node for an occurrence of a bound variable:
\* every occurrence pushes the socket the caller supplied, so for "t*t"
\* both inputs of the multiply node are linked from that one socket; every
\* number literal and every occurrence of pi, e or tau creates its own new
\* Value node, so "1+1" creates two distinct Value nodes.
C9_VariablesAndLiterals ==
    \A i \in DOMAIN builds :
        LET b == builds[i]
            IsVar(name) ==
                LET Test(tok) ==
                        tok[1] = "ID" /\ NameOf(lower(tok[2])) = name
                IN  Count(b.rpn, Test)
            FromSource(name) ==
                LET Test(l) == l.from = source_socket(name)
                IN  Count(LinksOf(i), Test)
        IN  b.status = "ok" =>
              /\ SeqMap(NodeValue, SelectSeq(NodesOf(i), IsValueNode))
                    = SeqMap(LiteralValue, SelectSeq(b.rpn, IsLiteral))
              /\ Len(NodesOf(i))
                    = Count(b.rpn, IsLiteral) + Count(b.rpn, IsOperator)
              /\ \A name \in Sources[addon] :
                    FromSource(name) + (IF b.sock = source_socket(name)
                                        THEN 1 ELSE 0)
                        = IsVar(name)
              /\ \A k \in DOMAIN LinksOf(i) :
                    LinksOf(i)[k].from.node = 0
                        => LinksOf(i)[k].from.name \in Sources[addon]
              /\ expr = <<"t", "*", "t">> =>
                    /\ Len(NodesOf(i)) = 1
                    /\ LinksOf(i) =
                          <<[from |-> source_socket("t"),
                             to |-> b.nodes0 + 1, input |-> 0],
                            [from |-> source_socket("t"),
                             to |-> b.nodes0 + 1, input |-> 1]>>
              /\ expr = <<"1", "+", "1">> =>
                    /\ Len(SelectSeq(NodesOf(i), IsValueNode)) = 2
                    /\ LinksOf(i) =
                          <<[from |-> OutputOf(b.nodes0 + 1),
                             to |-> b.nodes0 + 3, input |-> 0],
                            [from |-> OutputOf(b.nodes0 + 2),
                             to |-> b.nodes0 + 3, input |-> 1]>>

\* t*t has been compiled into one multiply node with both inputs linked
\* from the socket of t
C9_Witness ==
    /\ addon = "curve" /\ expr = <<"t", "*", "t">>
    /\ builds # <<>> /\ builds[1].status = "ok"
    /\ Len(tree.nodes) = 1 /\ tree.nodes[1].operation = "MULTIPLY"
    /\ Len(tree.links) = 2
    /\ tree.links[1].from = source_socket("t")
    /\ tree.links[2].from = source_socket("t")

\* The expression a socket computes, read back from the tree: <<"var",
\* name, "">> for a socket of the caller, <<"value", v, "">> for a Value
\* node, and <<operation, input 0, input 1>> for a Math node, an input
\* without a link being <<"default", the value stored in it, "">>.
RECURSIVE TermOf(_)
TermOf(sock) ==
    IF sock.node = 0 THEN <<"var", sock.name, "">>
    ELSE LET n == tree.nodes[sock.node]
             Links(k) == {l \in DOMAIN tree.links :
                             /\ tree.links[l].to = sock.node
                             /\ tree.links[l].input = k}
             Input(k) ==
                 IF Links(k) = {}
                 THEN <<"default", IF k = 1 THEN n.default1 ELSE Nothing, "">>
                 ELSE IF Cardinality(Links(k)) = 1
                 THEN TermOf(tree.links[CHOOSE l \in Links(k) : TRUE].from)
                 ELSE <<"ambiguous", k, "">>
         IN  IF IsValueNode(n) THEN <<"value", n.value, "">>
             ELSE <<n.operation, Input(0), Input(1)>>

\* The expression an RPN sequence denotes under the operand order of
\* eval_rpn: the right operand is on top of the stack, the left operand
\* below it.
RECURSIVE RpnTerm(_, _, _)
RpnTerm(rpn, i, stack) ==
    IF i > Len(rpn) THEN stack
    ELSE
    LET tok == rpn[i]
        n == Len(stack)
        name == IF tok[1] \in {"ID", "FUNC"} THEN NameOf(lower(tok[2]))
                ELSE ""
        Default(v) == <<"default", v, "">>
    IN
    IF tok[1] = "NUMBER"
    THEN RpnTerm(rpn, i + 1, Append(stack, <<"value", float(tok[2]), "">>))
    ELSE IF tok[1] = "ID"
    THEN RpnTerm(rpn, i + 1,
                 Append(stack, IF name \in Sources[addon]
                               THEN <<"var", name, "">>
                               ELSE <<"value", Special(name), "">>))
    ELSE IF tok[1] = "UNARY"
    THEN RpnTerm(rpn, i + 1,
                 Append(Front(stack),
                        <<"MULTIPLY", stack[n], Default(Whole(-1))>>))
    ELSE IF tok[1] = "FUNC" /\ tok[3] = 1
    THEN RpnTerm(rpn, i + 1,
                 Append(Front(stack),
                        <<opmap[name], stack[n],
                          Default(IF name = "ln" THEN Special("e")
                                                 ELSE Nothing)>>))
    ELSE RpnTerm(rpn, i + 1,
                 Append(SubSeq(stack, 1, n - 2),
                        <<IF tok[1] = "OP" THEN OpNames[tok[2]]
                                           ELSE Func2Names[name],
                          stack[n - 1], stack[n]>>))

\* the number of inputs an operator token links
Arity(tok) ==
    IF tok[1] = "UNARY" \/ (tok[1] = "FUNC" /\ tok[3] = 1) THEN 1 ELSE 2

\* C10: when build_expr succeeds, each binary operator, unary negation and
\* function token has created exactly one Math node, with the left operand
\* linked to input 0 and the right operand to input 1 (a single operand to
\* input 0), in the operand order of eval_rpn, and pushed the output of
\* that node; the Math nodes created are as many as the operator, unary
\* and function tokens of the RPN.
C10_MathNodes ==
    \A i \in DOMAIN builds :
        LET b == builds[i]
            ops == SelectSeq(b.rpn, IsOperator)
            \* the indices in the tree of the Math nodes of the call
            math == SelectSeq([k \in 1..Len(NodesOf(i)) |-> b.nodes0 + k],
                              LAMBDA k : IsMathNode(tree.nodes[k]))
            LinksTo(node, input) ==
                LET Test(l) == l.to = node /\ l.input = input
                IN  Count(LinksOf(i), Test)
        IN  b.status = "ok" =>
              /\ Len(math) = Len(ops)
              /\ \A k \in DOMAIN math :
                    /\ LinksTo(math[k], 0) = 1
                    /\ LinksTo(math[k], 1) = Arity(ops[k]) - 1
              /\ Len(LinksOf(i)) = Len(ops) + Count(ops, LAMBDA t : Arity(t) = 2)
              /\ <<TermOf(b.sock)>> = RpnTerm(b.rpn, 1, <<>>)
              /\ IsOperator(Last(b.rpn))
                    => b.sock = OutputOf(b.nodes0 + Len(NodesOf(i)))

\* (1+2)*3 has been compiled: the add node is linked to input 0 of the
\* multiply node and the Value node of 3 to its input 1
C10_Witness ==
    /\ expr = <<"(", "1", "+", "2", ")", "*", "3">>
    /\ builds # <<>> /\ builds[1].status = "ok"
    /\ Len(tree.nodes) = 5
    /\ tree.nodes[5].operation = "MULTIPLY"
    /\ [from |-> OutputOf(3), to |-> 5, input |-> 0]
          \in {tree.links[k] : k \in DOMAIN tree.links}
    /\ [from |-> OutputOf(4), to |-> 5, input |-> 1]
          \in {tree.links[k] : k \in DOMAIN tree.links}

\* C11: when compiling an expression fails (lex, parse or build error),
\* build_expr has produced no partial result: the call has added no node
\* and no link to the node tree.
C11_NoPartialResult ==
    \A i \in DOMAIN builds :
        builds[i].status # "ok" => NodesOf(i) = <<>> /\ LinksOf(i) = <<>>

\* C12: when the compilation run by the Build operator fails, the operator
\* reports the error and returns CANCELLED, and the node group that
\* existed before the run still has exactly the nodes and links it had.
C12_FailedBuildKeepsGroup ==
    [][(BuildOp /\ report'.msg # <<>>
               /\ report'.msg[1] = "Parse/build error")
          => /\ report'.level = "ERROR"
             /\ report'.result = "CANCELLED"
             /\ tree' = tree]_vars

\* the socket s and the link l of a tree, after k nodes were put before
\* the nodes of the tree; the sockets the caller supplies (node 0) stay
ShiftSocket(s, k) == IF s.node > 0 THEN [s EXCEPT !.node = @ + k] ELSE s

ShiftLink(l, k) ==
    [from |-> ShiftSocket(l.from, k), to |-> l.to + k, input |-> l.input]

\* the indices of the nodes call i of build_expr created
NodeRange(i) == (builds[i].nodes0 + 1)..builds[i].nodes1

\* C13: build_expr only adds nodes and links and never removes or rewires
\* an existing one: after the calls of one run, what the group held before
\* the first call is unchanged, and every call has left exactly the nodes
\* and links it creates in an empty tree, appended after those that
\* existed.  Two calls on the same expression and inputs create two
\* disjoint sets of new nodes, whose links touch only the nodes of their
\* own call and the variable sockets supplied by the caller.
C13_AddsOnly ==
    /\ builds # <<>> =>
          /\ SubSeq(tree.nodes, 1, builds[1].nodes0) = scaffold.nodes
          /\ SubSeq(tree.links, 1, builds[1].links0) = scaffold.links
    /\ \A i \in DOMAIN builds :
          LET b == builds[i]
              alone == build_expr(EmptyTree, -280, b.base_y, Sources[addon],
                                  b.expr_string)
          IN  /\ i > 1 => /\ b.nodes0 = builds[i - 1].nodes1
                          /\ b.links0 = builds[i - 1].links1
              /\ b.nodes1 <= Len(tree.nodes) /\ b.links1 <= Len(tree.links)
              /\ b.status = alone.status
              /\ NodesOf(i) = alone.tree.nodes
              /\ LinksOf(i) = SeqMap(LAMBDA l : ShiftLink(l, b.nodes0),
                                     alone.tree.links)
              /\ b.sock = ShiftSocket(alone.sock, b.nodes0)
    /\ \A i, j \in DOMAIN builds :
          (i < j /\ builds[i].expr_string = builds[j].expr_string) =>
             /\ NodeRange(i) \cap NodeRange(j) = {}
             /\ \A k \in DOMAIN LinksOf(j) :
                   /\ LinksOf(j)[k].to \in NodeRange(j)
                   /\ LinksOf(j)[k].from.node \in NodeRange(j) \cup {0}

\* a finished run whose x and y expressions are both 2*t: each call made a
\* Value node and a Math node of its own, linked to the socket of t
C13_Witness ==
    /\ report.result = "FINISHED"
    /\ Len(builds) = 3
    /\ builds[1].expr_string = <<"2", "*", "t">>
    /\ builds[2].expr_string = <<"2", "*", "t">>
    /\ Len(NodesOf(1)) = 2 /\ Len(NodesOf(2)) = 2
    /\ \E k \in DOMAIN LinksOf(1) : LinksOf(1)[k].from = source_socket("t")
    /\ \E k \in DOMAIN LinksOf(2) : LinksOf(2)[k].from = source_socket("t")

\* C14: every failure of the compiler core is a ValueError raised by the
\* code itself; neither eval_rpn nor build_expr fails by popping an empty
\* operand stack (IndexError) or with another exception class.  (An
\* evaluation whose outcome depends on a float the model does not track is
\* left out.)
C14_TaxonomyErrorsOnly ==
    /\ \A i \in DOMAIN builds : builds[i].status \in {"ok", "ValueError"}
    /\ \A j \in DOMAIN evals :
          evals[j].status \in {"ok", "ValueError", "unknown"}

\* The characters of C15, stated on the text: a position is bad when its
\* character starts or continues no pattern there.  The digits are those
\* of \d and the word characters those of \w.  A point continues a number
\* exactly when a digit follows it and the run of word characters before
\* it is a non-empty run of digits that does not itself follow a point.  A
\* word character that starts no pattern continues an identifier exactly
\* when the run of word characters before it holds, after its leading
\* digits, a letter of [A-Za-z_].
RECURSIVE WordRunStart(_, _)
WordRunStart(s, i) ==
    IF i >= 1 /\ s[i] \in WordChars
    THEN WordRunStart(s, i - 1) ELSE i + 1

PointInNumber(s, i) ==
    /\ i > 1 /\ i < Len(s)
    /\ s[i + 1] \in Digits
    /\ LET a == WordRunStart(s, i - 1) IN
       /\ a <= i - 1
       /\ \A k \in a..(i - 1) : s[k] \in Digits
       /\ a = 1 \/ s[a - 1] # "."

InIdentifier(s, i) ==
    /\ s[i] \in WordChars
    /\ \E k \in WordRunStart(s, i - 1)..(i - 1) :
          /\ s[k] \in IdStart
          /\ \A j \in WordRunStart(s, i - 1)..(k - 1) : s[j] \in Digits

BadPosition(s, i) ==
    IF s[i] = "." THEN ~PointInNumber(s, i)
    ELSE /\ s[i] \notin Digits \cup IdStart
                      \cup {"+", "-", "*", "/", "^", "(", ")", ",", " ", "\t"}
         /\ ~InIdentifier(s, i)

TokenText(tok) == IF tok[1] = "OP" THEN <<tok[2]>> ELSE tok[2]

IsBlankChar(c) == c \in {" ", "\t"}
NotBlankChar(c) == ~IsBlankChar(c)

\* C15: tokenize fails with an error naming the offending character and
\* its offset exactly when it reaches a position where no number (digits
\* with an optional .digits part), identifier, operator or space/tab
\* pattern matches; the tokens before that position have been yielded in
\* order, so an error of the parser on one of them comes first.
C15_LexError ==
    LET s == strip(expr)
        bad == {i \in 1..Len(s) : BadPosition(s, i)}
        first == Min(bad)
        lexmsg == <<"Unexpected character", first - 1, s[first]>>
        prefix == SubSeq(s, 1, first - 1)
        before == tokenize(prefix)
    IN  s # <<>> =>
          /\ bad # {} =>
                /\ tokenize(s).err = lexmsg
                /\ tokenize(s).toks = before.toks
                /\ before.err = None
                /\ Flatten(SeqMap(TokenText, before.toks))
                      = SelectSeq(prefix, NotBlankChar)
          /\ bad = {} => tokenize(s).err = None
          /\ \A j \in DOMAIN evals :
                IF bad = {} THEN evals[j].parsed = "ok"
                ELSE /\ evals[j].parsed = "ValueError"
                     /\ evals[j].msg = lexmsg
                     /\ evals[j].rpn = <<>>
          /\ \A i \in DOMAIN builds :
                IF bad = {}
                THEN builds[i].parsed = "ValueError"
                        => builds[i].msg[1] # "Unexpected character"
                ELSE /\ builds[i].parsed = "ValueError"
                     /\ builds[i].rpn = <<>>
                     /\ LET raised ==
                                to_rpn_loop(ParserInit, before.toks, 1).err
                        IN  builds[i].msg = IF raised # None THEN raised
                                            ELSE lexmsg

\* "1.": the point is reported at offset 1 by both parsers, after the
\* token of the number 1
C15_Witness ==
    /\ expr = <<"1", ".">>
    /\ builds # <<>> /\ builds[1].msg = <<"Unexpected character", 1, ".">>
    /\ evals # <<>> /\ evals[1].msg = <<"Unexpected character", 1, ".">>

\* whitespace is what str.isspace() holds of: the characters that
\* str.strip() removes
IsWhitespace(c) == c \in StripChars

Blank(e) == \A i \in 1..Len(e) : IsWhitespace(e[i])

\* C16: to_rpn raises "Expression is empty" for the empty string and for
\* every string that consists only of whitespace, before any token is read
\* and without returning an RPN sequence; it raises it for no other string.
C16_EmptyExpression ==
    /\ \A i \in DOMAIN builds :
          IF Blank(expr)
          THEN /\ builds[i].parsed = "ValueError"
               /\ builds[i].msg = <<"Expression is empty">>
               /\ builds[i].rpn = <<>>
               /\ builds[i].status = "ValueError"
          ELSE builds[i].msg # <<"Expression is empty">>
    /\ \A j \in DOMAIN evals :
          IF Blank(expr)
          THEN /\ evals[j].parsed = "ValueError"
               /\ evals[j].msg = <<"Expression is empty">>
               /\ evals[j].rpn = <<>>
               /\ evals[j].status = "ValueError"
          ELSE evals[j].msg # <<"Expression is empty">>

\* a space followed by a newline has been rejected as empty by both
\* parsers
C16_Witness ==
    /\ expr = <<" ", "\n">>
    /\ builds # <<>> /\ builds[1].msg = <<"Expression is empty">>
    /\ evals # <<>> /\ evals[1].msg = <<"Expression is empty">>

\* the tokens are  - a + b  or  - a - b
IsNegSum(toks) ==
    /\ Len(toks) = 4
    /\ IsOp(toks[1], "-") /\ IsOperand(toks[2])
    /\ IsOp(toks[3], "+") \/ IsOp(toks[3], "-")
    /\ IsOperand(toks[4])

\* C17: in to_rpn unary minus binds tighter than every binary operator:
\* the Unary(neg) marker on top of the operator stack is popped to the
\* output before an arriving binary operator is pushed, so "-a+b" yields
\* the RPN a neg b + and the value (-a)+b, never -(a+b).  Stated for the
\* additive operators, in both parsers.
C17_UnaryBindsTighter ==
    LET tk == tokenize(strip(expr))
        toks == tk.toks
        expected == <<toks[2], <<"UNARY", "neg">>, toks[4], toks[3]>>
    IN  (tk.err = None /\ IsNegSum(toks)) =>
          /\ \A i \in DOMAIN builds :
                builds[i].parsed = "ok" /\ builds[i].rpn = expected
          /\ \A j \in DOMAIN evals :
                /\ evals[j].parsed = "ok" /\ evals[j].rpn = expected
                /\ LET a == OperandValue(toks[2], evals[j].variables)
                       b == OperandValue(toks[4], evals[j].variables)
                   IN  (IsWhole(a) /\ IsWhole(b)) =>
                          evals[j].value =
                             IF IsOp(toks[3], "+") THEN Whole(b.n - a.n)
                             ELSE Whole(0 - a.n - b.n)

\* The groups open before token i: one frame per "(" not yet closed, call
\* telling whether the "(" opens a function call (it follows an
\* identifier) and commas counting the commas read directly in the group.
RECURSIVE FramesBefore(_, _)
FramesBefore(toks, i) ==
    IF i <= 1 THEN <<>>
    ELSE LET f == FramesBefore(toks, i - 1)
             t == toks[i - 1]
         IN  IF IsOp(t, "(")
             THEN Append(f, [call |-> i > 2 /\ toks[i - 2][1] = "ID",
                             commas |-> 0])
             ELSE IF IsOp(t, ",") /\ f # <<>>
             THEN [f EXCEPT ![Len(f)].commas = @ + 1]
             ELSE IF IsOp(t, ")") /\ f # <<>>
             THEN Front(f)
             ELSE f

\* the arities of the calls of toks in the order in which they are closed:
\* 1 plus the commas of the call's own group
RECURSIVE CallArities(_, _)
CallArities(toks, i) ==
    IF i > Len(toks) THEN <<>>
    ELSE LET f == FramesBefore(toks, i) IN
         IF IsOp(toks[i], ")") /\ f # <<>> /\ Last(f).call
         THEN <<1 + Last(f).commas>> \o CallArities(toks, i + 1)
         ELSE CallArities(toks, i + 1)

IsFunc(tok) == tok[1] = "FUNC"
FuncArity(tok) == IF Len(tok) > 2 THEN tok[3] ELSE 0

\* C18: the arity frozen into a FUNC token of the RPN is at least 1 and is
\* 1 plus the number of commas written directly at the call's own nesting
\* depth; commas inside a nested call or inside a nested parenthesised
\* group are not counted for the enclosing call.
C18_CallArity ==
    LET tk == tokenize(strip(expr))
        arities == CallArities(tk.toks, 1)
    IN  (tk.err = None /\ ~Unbalanced(expr)) =>
          /\ \A i \in DOMAIN builds :
                builds[i].parsed = "ok" =>
                   SeqMap(FuncArity, SelectSeq(builds[i].rpn, IsFunc))
                      = arities
          /\ \A j \in DOMAIN evals :
                evals[j].parsed = "ok" =>
                   SeqMap(FuncArity, SelectSeq(evals[j].rpn, IsFunc))
                      = arities

\* a comma read while no "(" is open, or while no function call is open
MisplacedComma(toks) ==
    \E i \in DOMAIN toks :
        /\ IsOp(toks[i], ",")
        /\ \A k \in DOMAIN FramesBefore(toks, i) :
              ~FramesBefore(toks, i)[k].call

\* C19: to_rpn rejects a misplaced comma with a parse error: a comma read
\* while no "(" group marker is on the operator stack, or while no function
\* call is open, makes to_rpn fail and no RPN sequence is returned.
C19_MisplacedComma ==
    LET tk == tokenize(strip(expr)) IN
    (tk.err = None /\ MisplacedComma(tk.toks)) =>
       /\ \A i \in DOMAIN builds :
             builds[i].parsed = "ValueError" /\ builds[i].rpn = <<>>
       /\ \A j \in DOMAIN evals :
             evals[j].parsed = "ValueError" /\ evals[j].rpn = <<>>

\* a call name(...) whose name is in neither function table
UnsupportedCall(toks) ==
    \E i \in 1..(Len(toks) - 1) :
        /\ toks[i][1] = "ID" /\ IsOp(toks[i + 1], "(")
        /\ NameOf(lower(toks[i][2])) \notin _FUNC_1 \cup _FUNC_2

\* C20: to_rpn rejects an unsupported function with a parse error: a call
\* name(...) whose name is not in the one-argument or two-argument function
\* table never yields an RPN sequence.
C20_UnsupportedFunction ==
    LET tk == tokenize(strip(expr)) IN
    (tk.err = None /\ UnsupportedCall(tk.toks)) =>
       /\ \A i \in DOMAIN builds :
             builds[i].parsed = "ValueError" /\ builds[i].rpn = <<>>
       /\ \A j \in DOMAIN evals :
             evals[j].parsed = "ValueError" /\ evals[j].rpn = <<>>

\* C21: every link created by build_expr goes from a variable socket
\* supplied by the caller, or from the output of a node created earlier in
\* the same call, to an input of the node being created when the link is
\* made: no input is linked from a node created after it, so the graph is
\* acyclic.
C21_Acyclic ==
    \A i \in DOMAIN builds :
        LET ls == LinksOf(i) IN
        /\ \A k \in DOMAIN ls :
              /\ ls[k].to \in NodeRange(i)
              /\ \/ /\ ls[k].from.node = 0
                    /\ ls[k].from.name \in Sources[addon]
                 \/ /\ ls[k].from.node \in NodeRange(i)
                    /\ ls[k].from.node < ls[k].to
              /\ tree.nodes[ls[k].to].type = "ShaderNodeMath"
        /\ \A k1, k2 \in DOMAIN ls : k1 < k2 => ls[k1].to <= ls[k2].to

\* a successful build with a link from the caller's socket and a link from
\* a node the call created
C21_Witness ==
    /\ builds # <<>> /\ builds[1].status = "ok"
    /\ \E k \in DOMAIN LinksOf(1) : LinksOf(1)[k].from.node = 0
    /\ \E k \in DOMAIN LinksOf(1) : LinksOf(1)[k].from.node > 0

\* token i of toks is the name of a call: an identifier directly followed
\* by "("
IsCallName(toks, i) ==
    /\ toks[i][1] = "ID"
    /\ i < Len(toks) /\ IsOp(toks[i + 1], "(")

\* the numbers and the identifiers that are no call names, among the first
\* n tokens, in the order of the input
RECURSIVE PlainOperands(_, _)
PlainOperands(toks, n) ==
    IF n = 0 THEN <<>>
    ELSE IF IsOperand(toks[n]) /\ ~IsCallName(toks, n)
    THEN Append(PlainOperands(toks, n - 1), toks[n])
    ELSE PlainOperands(toks, n - 1)

\* the calls of toks in the order in which their ")" is read, each with
\* its name and the number of operands read before that ")"; open holds
\* the positions of the "(" not yet closed
RECURSIVE ClosedCalls(_, _, _)
ClosedCalls(toks, i, open) ==
    IF i > Len(toks) THEN <<>>
    ELSE IF IsOp(toks[i], "(")
    THEN ClosedCalls(toks, i + 1, Append(open, i))
    ELSE IF IsOp(toks[i], ")") /\ open # <<>>
    THEN LET o == Last(open)
             rest == ClosedCalls(toks, i + 1, Front(open))
         IN  IF o > 1 /\ toks[o - 1][1] = "ID"
             THEN <<[name |-> toks[o - 1][2],
                     operands |-> Len(PlainOperands(toks, i))]>> \o rest
             ELSE rest
    ELSE ClosedCalls(toks, i + 1, open)

\* the FUNC tokens of an RPN, each with its name and the number of operand
\* tokens before it
RECURSIVE RpnCalls(_, _)
RpnCalls(rpn, n) ==
    IF n = 0 THEN <<>>
    ELSE IF rpn[n][1] = "FUNC"
    THEN Append(RpnCalls(rpn, n - 1),
                [name |-> rpn[n][2],
                 operands |-> Count(SubSeq(rpn, 1, n - 1), IsOperand)])
    ELSE RpnCalls(rpn, n - 1)

OperandOrderKept(rpn, toks, balanced) ==
    /\ SelectSeq(rpn, IsOperand) = PlainOperands(toks, Len(toks))
    /\ Count(rpn, IsFunc)
          = Cardinality({i \in DOMAIN toks : IsCallName(toks, i)})
    /\ balanced => RpnCalls(rpn, Len(rpn)) = ClosedCalls(toks, 1, <<>>)

\* C22: to_rpn appends numbers and identifiers to the output as they are
\* read and never reorders them: in every RPN returned the NUMBER and ID
\* tokens are those of the input that are no call names, in the order of
\* the input; an identifier directly followed by "(" appears only as a FUNC
\* token, placed after all the tokens of its arguments and before every
\* operand read after its ")".
C22_OperandOrder ==
    LET tk == tokenize(strip(expr)) IN
    tk.err = None =>
       /\ \A i \in DOMAIN builds :
             builds[i].parsed = "ok" =>
                OperandOrderKept(builds[i].rpn, tk.toks, ~Unbalanced(expr))
       /\ \A j \in DOMAIN evals :
             evals[j].parsed = "ok" =>
                OperandOrderKept(evals[j].rpn, tk.toks, ~Unbalanced(expr))

\* pow(min(1,2),3) has been parsed by both parsers into 1 2 min 3 pow
C22_Witness ==
    LET rpn == <<<<"NUMBER", <<"1">>>>, <<"NUMBER", <<"2">>>>,
                 <<"FUNC", <<"m", "i", "n">>, 2>>, <<"NUMBER", <<"3">>>>,
                 <<"FUNC", <<"p", "o", "w">>, 2>>>>
    IN  /\ builds # <<>> /\ builds[1].rpn = rpn
        /\ evals # <<>> /\ evals[1].rpn = rpn

\* C23: tokenize emits the tokens in the order of the input and emits
\* nothing for spaces and tabs: for every string it accepts, the texts of
\* the tokens concatenated give the input without its spaces and tabs, and
\* no token is empty.
C23_TokenTexts ==
    LET tk == tokenize(expr)
        texts == SeqMap(TokenText, tk.toks)
    IN  tk.err = None =>
           /\ Flatten(texts) = SelectSeq(expr, NotBlankChar)
           /\ \A k \in DOMAIN texts :
                 /\ texts[k] # <<>>
                 /\ \A c \in DOMAIN texts[k] : ~IsBlankChar(texts[k][c])

\* "1 1" has been compiled from the two tokens 1 and 1
C23_Witness ==
    /\ expr = <<"1", " ", "1">>
    /\ tokenize(expr).toks = <<<<"NUMBER", <<"1">>>>, <<"NUMBER", <<"1">>>>>>
    /\ builds # <<>> /\ builds[1].rpn = tokenize(expr).toks

\* the arity eval_rpn reads from a FUNC token (1 when the token has none)
EvalArity(tok) == IF Len(tok) > 2 THEN tok[3] ELSE 1

\* a FUNC token of an RPN that eval_rpn has no branch for, and the number
\* of operands the branch of its arity pops
Unsupported(tok) ==
    /\ tok[1] = "FUNC"
    /\ LET fname == NameOf(lower(tok[2])) IN
       ~ \/ EvalArity(tok) = 1 /\ fname \in _FUNC_1
         \/ EvalArity(tok) = 2 /\ fname \in _FUNC_2

PoppedBy(tok) == IF EvalArity(tok) \in {1, 2} THEN EvalArity(tok) ELSE 0

\* C24: in eval_rpn a function token whose combination of name and arity
\* is unsupported raises no error and pushes no result: when the operands
\* its arity pops are on the stack, the walk goes on with the stack without
\* them and without a value for the call.
C24_UnsupportedCallSilent ==
    \A j \in DOMAIN evals :
       LET e == evals[j] IN
       e.parsed = "ok" =>
          \A k \in DOMAIN e.rpn :
             LET before == eval_rpn(SubSeq(e.rpn, 1, k - 1), e.variables)
                 after == eval_rpn(SubSeq(e.rpn, 1, k), e.variables)
                 left == Len(before.stack) - PoppedBy(e.rpn[k])
             IN  (/\ Unsupported(e.rpn[k])
                  /\ before.status = "ok" /\ left >= 0) =>
                    /\ after.status = "ok"
                    /\ after.stack = SubSeq(before.stack, 1, left)
                    /\ k = Len(e.rpn) =>
                          e.status = "ok" /\ e.stack = after.stack

\* sin(1,2) has been evaluated: no error, an empty stack and the result 0
C24_Witness ==
    /\ evals # <<>>
    /\ evals[1].rpn = <<<<"NUMBER", <<"1">>>>, <<"NUMBER", <<"2">>>>,
                        <<"FUNC", <<"s", "i", "n">>, 2>>>>
    /\ evals[1].status = "ok"
    /\ evals[1].stack = <<>>
    /\ evals[1].value = int(0)

\* C25: for every expression that to_rpn accepts with a non-empty RPN and
\* that eval_rpn evaluates without raising, the value stack holds exactly
\* one value when the walk ends and that value is the one returned.
C25_SingleResult ==
    \A j \in DOMAIN evals :
       (/\ evals[j].parsed = "ok" /\ evals[j].rpn # <<>>
        /\ evals[j].status = "ok") =>
          /\ Len(evals[j].stack) = 1
          /\ evals[j].value = evals[j].stack[1]

\* the relation of C30 between the operator stack and the arity counters
\* of a parser state
CountersMatch(ps) ==
    /\ Len(ps.arg_count) = Count(ps.stack, IsFunc)
    /\ \A k \in DOMAIN ps.stack :
          IsFunc(ps.stack[k]) =>
             k < Len(ps.stack) /\ IsOp(ps.stack[k + 1], "(")
    /\ \A k \in DOMAIN ps.arg_count : ps.arg_count[k] >= 1

\* C30: at every step of to_rpn before the final flush the arity-counter
\* stack has exactly one entry per FUNC marker on the operator stack and
\* every FUNC marker lies directly beneath a "(" marker; hence the counter
\* of a FUNC marker popped on ")" is on top of the arity stack and the
\* fallback arity 1 for an empty arity stack is never used.  Stated for the
\* parser state after every prefix of the tokens, in both parsers.
C30_ArityCounters ==
    LET toks == tokenize(strip(expr)).toks IN
    \A n \in 0..Len(toks) :
       LET ps == to_rpn_loop(ParserInit, SubSeq(toks, 1, n), 1)
           cs == calc_to_rpn_loop(ParserInit, SubSeq(toks, 1, n), 1)
       IN  /\ ps.err = None => CountersMatch(ps)
           /\ cs.err = None => CountersMatch(cs)

\* pow(min(1,2),3) has been parsed; after "pow(min(1" two FUNC markers and
\* two counters were pending
C30_Witness ==
    LET toks == tokenize(strip(expr)).toks
        ps == to_rpn_loop(ParserInit, SubSeq(toks, 1, 5), 1)
    IN  /\ Len(toks) = 11
        /\ Len(ps.arg_count) = 2 /\ Count(ps.stack, IsFunc) = 2
        /\ builds # <<>> /\ builds[1].parsed = "ok"
        /\ Count(builds[1].rpn, IsFunc) = 2
        /\ evals # <<>> /\ evals[1].parsed = "ok"

SameExpressions(m, n) ==
    /\ m.x_expr = n.x_expr
    /\ m.y_expr = n.y_expr
    /\ m.z_expr = n.z_expr

\* the node group t holds the compilation of the expressions stored on
\* the group node n
CompilationOf(n, t) ==
    LET g == build_group_from_expressions(n.x_expr, n.y_expr, n.z_expr)
    IN  g.status = "ok" /\ t = g.tree

\* C26: in the Parametric Curve add-on the graph of the node group used by
\* a Parametric Curve node is the compilation of the expressions stored on
\* that node, and adding or rebuilding a node never changes the curve of
\* another node: once the group of node b holds the compilation of b's
\* expressions, it holds it after every step that leaves b's expressions
\* as they are, that is after every run of the Add and Build operators
\* and every edit of another node.
C26_OtherNodesKeep ==
    [][\A b \in DOMAIN group_nodes :
          (/\ CompilationOf(group_nodes[b], tree)
           /\ SameExpressions(group_nodes[b], group_nodes'[b]))
          => CompilationOf(group_nodes'[b], tree')]_vars

\* the node tree used by the surface node b
TreeOf(b) == node_groups[group_nodes[b].node_tree]

\* C27: in the Parametric Surface add-on a Build on one node never
\* changes the node tree used by any other node.  In every step, the tree
\* used by a node b changes only when the step is a Build with b active;
\* a node group is cleared and rebuilt only when the step is a Build whose
\* active node is the only group node that uses it (a group with more
\* users is copied first, and the copy is rebuilt); no node group is
\* removed; and an Add appends a fresh node group, which only the new
\* node uses, and changes no other.
C27_OtherTreesKeep ==
    [][/\ \A b \in DOMAIN group_nodes :
             TreeOf(b)' # TreeOf(b) => SurfBuild(b)
       /\ \A k \in DOMAIN node_groups :
             node_groups'[k] # node_groups[k]
                => \E a \in DOMAIN group_nodes :
                      /\ SurfBuild(a)
                      /\ {b \in DOMAIN group_nodes :
                             group_nodes[b].node_tree = k} = {a}
       /\ Len(node_groups') >= Len(node_groups)
       /\ SurfAddOp =>
             /\ Len(node_groups') = Len(node_groups) + 1
             /\ \A b \in DOMAIN group_nodes' :
                   group_nodes'[b].node_tree = Len(node_groups')
                      <=> b = Len(group_nodes')]_vars

\* node 2 is a duplicate of node 1; node 1 was edited and built, so that
\* its group, then shared, was copied: node 1 uses the newer group, which
\* holds the compilation of u*v, and node 2 still uses the older group
\* with the graph of the default expressions
C27_Witness ==
    /\ Len(group_nodes) = 2 /\ Len(node_groups) = 2
    /\ group_nodes[1].node_tree = 2
    /\ group_nodes[2].node_tree = 1
    /\ report.result = "FINISHED"
    /\ group_nodes[1].x_expr = <<"u", "*", "v">>
    /\ group_nodes[2].x_expr = SurfaceDefaultExprs.x_expr
    /\ node_groups[2] =
          surface_build_group_from_expressions(
             group_nodes[1].x_expr, group_nodes[1].y_expr,
             group_nodes[1].z_expr).tree
    /\ node_groups[1] =
          surface_build_group_from_expressions(
             group_nodes[2].x_expr, group_nodes[2].y_expr,
             group_nodes[2].z_expr).tree
    /\ node_groups[1] # node_groups[2]

\* C28: when the Build of Calculate Surface fails on a parse or evaluation
\* error in a curve or matrix expression, the operator returns CANCELLED
\* and the objects are as they were before the run: the object
\* "Surface_<node name>" of an earlier run has not been removed and no new
\* object has been linked into the collection.
C28_FailedRunKeepsObject ==
    [][report'.result = "CANCELLED" => objects' = objects]_vars

\* the Combine Matrix node of the group, the last node of a group that
\* was built without error
CombineMatrix == Len(tree.nodes)

\* the links into input i of the Combine Matrix node
WiredTo(i) ==
    {k \in DOMAIN tree.links :
        /\ tree.links[k].to = CombineMatrix
        /\ "input" \in DOMAIN tree.links[k]
        /\ tree.links[k].input = i}

\* C29: build_group_from_expressions of the matrix add-on wires the
\* sixteen compiled entries into the Combine Matrix node in column-major
\* order: after every run that built the group, input c*4+r of the node
\* has exactly one link and it comes from the socket that build_expr
\* returned for the entry of row r and column c, the (4*r+c+1)-th call;
\* that is input i receives entry m[i mod 4][i div 4], and the node has
\* sixteen incoming links, one per entry.
C29_ColumnMajor ==
    (Len(builds) = 16 /\ \A k \in DOMAIN builds : builds[k].status = "ok")
    => /\ tree.nodes[CombineMatrix].type = "FunctionNodeCombineMatrix"
       /\ \A r \in 0..3 : \A c \in 0..3 :
             /\ Cardinality(WiredTo(c * 4 + r)) = 1
             /\ \A k \in WiredTo(c * 4 + r) :
                   tree.links[k].from = builds[4 * r + c + 1].sock
       /\ \A i \in 0..15 :
             \A k \in WiredTo(i) :
                tree.links[k].from = builds[(i % 4) * 4 + (i \div 4) + 1].sock
       /\ Cardinality({k \in DOMAIN tree.links :
                          tree.links[k].to = CombineMatrix}) = 16

\* a node with m01 = 2*s and m30 = s has been built: input 4 of the
\* Combine Matrix node (row 0, column 1) is fed by the Multiply node of
\* 2*s and input 3 (row 3, column 0) by the socket of s
C29_Witness ==
    /\ report.result = "FINISHED"
    /\ Len(builds) = 16
    /\ builds[2].expr_string = <<"2", "*", "s">>
    /\ builds[13].expr_string = <<"s">>
    /\ \E k \in WiredTo(4) :
          /\ tree.links[k].from = builds[2].sock
          /\ tree.nodes[tree.links[k].from.node].operation = "MULTIPLY"
    /\ \E k \in WiredTo(3) : tree.links[k].from = source_socket("s")
    /\ \E k \in WiredTo(12) : tree.links[k].from = source_socket("s")
====
